---- MODULE Spec2Model ----
(***************************************************************************)
(* OnlyTrack backend: authentication, sessions, temporary (demo) access,   *)
(* the admin plane and the tenant-scoped resource routers, as a state      *)
(* machine over the relational store.                                      *)
(*                                                                         *)
(* Time is counted in ticks, TicksPerDay of them to a day.  A JWT is the    *)
(* record of its payload, its iat/exp claims and the secret that signed    *)
(* it; a forged or corrupted token is one signed with a secret the server  *)
(* does not hold.                                                          *)
(***************************************************************************)
EXTENDS Integers, FiniteSets, Sequences, TLC

VARIABLES
    clock,             \* new Date() / Date.now(), in ticks
    envSecret,         \* whether process.env.JWT_SECRET is set
    utilisateurs,      \* table utilisateurs (set of rows)
    sessions,          \* table sessions
    accesTemporaires,  \* table acces_temporaires
    superAdmins,       \* table super_admins
    transactions,      \* table transactions
    taches,            \* table taches
    modeles,           \* table modeles
    agences,           \* table agences
    invitations,       \* table invitations
    inflight,          \* requests between two of their database calls
    issued,            \* every JWT the server has handed to a client
    last               \* the last request served and its response

vars == <<clock, envSecret, utilisateurs, sessions, accesTemporaires,
          superAdmins, transactions, taches, modeles, agences, invitations,
          inflight, issued, last>>

authTables == <<utilisateurs, sessions, accesTemporaires, superAdmins>>
resourceTables == <<transactions, taches, modeles>>
teamTables == <<agences, invitations>>

(***************************************************************************)
(* Bounds of the model.                                                    *)
(***************************************************************************)
TicksPerDay == 3
MaxDays == 8
MaxSessions == 2
MaxGrants == 1
MaxDemoClock == 4
MaxRows == 3
MaxUsers == 5
MaxInflight == 1
MaxInvitations == 1
MaxAgences == 5
MaxInscriptions == 2
MaxShuffle == 3
MaxRoleRequests == 2

DAY == TicksPerDay

MaxDemoTokens == 1

(***************************************************************************)
(* Lifetimes: "7d", setDate(getDate() + 7), "7d" and "24h".                *)
(***************************************************************************)
JWT_EXPIRATION == 7 * DAY

SESSION_EXPIRATION == 7 * DAY

ADMIN_JWT_EXPIRATION == 7 * DAY

DEMO_JWT_EXPIRATION == DAY

(* the instants at which the model lets a login succeed *)
LoginDays == {0, DAY}

None == <<>>
Some(x) == <<x>>

UNDEF == "undefined"

(***************************************************************************)
(* Secrets.  lib/auth.ts and the middleware/routes read the same           *)
(* environment variable but fall back to two different defaults.           *)
(***************************************************************************)
LibSecret == IF envSecret THEN "env" ELSE "secret-de-developpement-a-changer"

MwSecret == IF envSecret THEN "env" ELSE "onlytrack-super-secret"

ForgedSecret == "forged"

(* jwt.sign(payload, secret, {expiresIn}) *)
jwtSign(type, userId, id, email, accesId, agenceId, role, secret, expiresIn) ==
    [type |-> type, userId |-> userId, id |-> id, email |-> email,
     accesId |-> accesId, agenceId |-> agenceId, role |-> role,
     iat |-> clock, exp |-> clock + expiresIn, key |-> secret]

(* jwt.verify(token, secret): throws unless the signature matches and the   *)
(* exp claim is still ahead of the clock.                                  *)
jwtVerify(token, secret) == token.key = secret /\ clock < token.exp

generateJWT(userId, agenceId, role) ==
    jwtSign(UNDEF, userId, UNDEF, UNDEF, UNDEF, agenceId, role, LibSecret,
            JWT_EXPIRATION)

(* verifyJWT: TRUE when a payload is returned, FALSE for null *)
verifyJWT(token) == jwtVerify(token, LibSecret)

(* SHA-256 digest: deterministic, collision-free, and not a token *)
hashToken(token) ==
    <<"sha256", token.type, token.userId, token.id, token.email, token.accesId,
      token.agenceId, token.role, token.iat, token.exp, token.key>>

(* bcrypt: the hash embeds its salt; compare re-hashes with that salt *)
hashPassword(password, salt) == <<"bcrypt", salt, password>>

verifyPassword(password, hash) == hash = hashPassword(password, hash[2])

(***************************************************************************)
(* Requests.                                                               *)
(***************************************************************************)
Cookies(auth, demo, admin) ==
    [auth_token |-> auth, demo_token |-> demo, admin_token |-> admin]

ForgedToken ==
    [type |-> UNDEF, userId |-> "u1", id |-> UNDEF, email |-> UNDEF,
     accesId |-> UNDEF, agenceId |-> "a1", role |-> "owner",
     iat |-> 0, exp |-> JWT_EXPIRATION, key |-> ForgedSecret]

Presentable == issued \cup {ForgedToken}

OptTokens == {None} \cup {Some(t) : t \in Presentable}

(***************************************************************************)
(* middleware/auth.ts: authenticate                                        *)
(***************************************************************************)
(* AccesValide without the test of the expiration date *)
AccesValide_noExpiry(acces) == acces.actif

AccesValide(acces) ==
    acces.actif /\ (acces.dateExpiration = None \/ acces.dateExpiration[1] > clock)

Reject(status, error, reads) ==
    [next |-> FALSE, status |-> status, error |-> error,
     user |-> None, agenceId |-> None, reads |-> reads]

(* Proceed leaving req.agenceId unset *)
Proceed_noAgence(user, reads) ==
    [next |-> TRUE, status |-> 0, error |-> "",
     user |-> Some(user), agenceId |-> None, reads |-> reads]

Proceed(user, reads) ==
    [next |-> TRUE, status |-> 0, error |-> "",
     user |-> Some(user), agenceId |-> Some(user.agenceId), reads |-> reads]

DemoUser(acces) ==
    [id |-> "demo-" \o acces.id,
     email |-> IF acces.email = None THEN "demo@onlytrack.io" ELSE acces.email[1],
     role |-> "member", agenceId |-> acces.agenceId, isDemo |-> TRUE]

RealUser(user) ==
    [id |-> user.id, email |-> user.email, role |-> user.role,
     agenceId |-> user.agenceId, isDemo |-> FALSE]

(* lines 44-75: the demo cookie; the grant it names when the path succeeds *)
DemoDecoded(cookies) ==
    /\ cookies.demo_token # None
    /\ jwtVerify(cookies.demo_token[1], MwSecret)
    /\ cookies.demo_token[1].type = "demo"

DemoAcces(cookies) ==
    IF DemoDecoded(cookies)
    THEN {a \in accesTemporaires : a.id = cookies.demo_token[1].accesId /\ AccesValide(a)}
    ELSE {}

DemoReads(cookies) ==
    IF DemoDecoded(cookies) THEN <<"acces_temporaires">> ELSE <<>>

(* lines 95-105: a session of the payload's user that has not expired *)
SessionValide(payload) ==
    {s \in sessions : s.utilisateurId = payload.userId /\ s.dateExpiration > clock}

(* authenticateUser without the test of the actif flag *)
authenticateUser_noActif(cookies, reads) ==
    IF cookies.auth_token = None
    THEN Reject(401, "Non authentifie - Token manquant", reads)
    ELSE IF ~verifyJWT(cookies.auth_token[1])
    THEN Reject(401, "Non authentifie - Token invalide", reads)
    ELSE IF SessionValide(cookies.auth_token[1]) = {}
    THEN Reject(401, "Session expiree", reads \o <<"sessions">>)
    ELSE LET found == {u \in utilisateurs : u.id = cookies.auth_token[1].userId}
             r == reads \o <<"sessions", "utilisateurs">>
         IN IF found = {}
            THEN Reject(401, "Utilisateur inactif ou inexistant", r)
            ELSE Proceed(RealUser(CHOOSE u \in found : TRUE), r)

(* an authenticate that attaches the role and tenant claims of the JWT *)
authenticateUser_claims(cookies, reads) ==
    IF cookies.auth_token = None
    THEN Reject(401, "Non authentifie - Token manquant", reads)
    ELSE IF ~verifyJWT(cookies.auth_token[1])
    THEN Reject(401, "Non authentifie - Token invalide", reads)
    ELSE IF SessionValide(cookies.auth_token[1]) = {}
    THEN Reject(401, "Session expiree", reads \o <<"sessions">>)
    ELSE LET found == {u \in utilisateurs : u.id = cookies.auth_token[1].userId}
             r == reads \o <<"sessions", "utilisateurs">>
         IN IF found = {} \/ ~(CHOOSE u \in found : TRUE).actif
            THEN Reject(401, "Utilisateur inactif ou inexistant", r)
            ELSE Proceed([id |-> cookies.auth_token[1].userId,
                          email |-> (CHOOSE u \in found : TRUE).email,
                          role |-> cookies.auth_token[1].role,
                          agenceId |-> cookies.auth_token[1].agenceId,
                          isDemo |-> FALSE], r)

(* an authenticate that trusts the JWT alone *)
authenticateUser_jwtOnly(cookies, reads) ==
    IF cookies.auth_token = None
    THEN Reject(401, "Non authentifie - Token manquant", reads)
    ELSE IF ~verifyJWT(cookies.auth_token[1])
    THEN Reject(401, "Non authentifie - Token invalide", reads)
    ELSE LET found == {u \in utilisateurs : u.id = cookies.auth_token[1].userId}
             r == reads \o <<"sessions", "utilisateurs">>
         IN IF found = {} \/ ~(CHOOSE u \in found : TRUE).actif
            THEN Reject(401, "Utilisateur inactif ou inexistant", r)
            ELSE Proceed(RealUser(CHOOSE u \in found : TRUE), r)

(* lines 77-133 *)
authenticateUser(cookies, reads) ==
    IF cookies.auth_token = None
    THEN Reject(401, "Non authentifie - Token manquant", reads)
    ELSE IF ~verifyJWT(cookies.auth_token[1])
    THEN Reject(401, "Non authentifie - Token invalide", reads)
    ELSE IF SessionValide(cookies.auth_token[1]) = {}
    THEN Reject(401, "Session expiree", reads \o <<"sessions">>)
    ELSE LET found == {u \in utilisateurs : u.id = cookies.auth_token[1].userId}
             r == reads \o <<"sessions", "utilisateurs">>
         IN IF found = {} \/ ~(CHOOSE u \in found : TRUE).actif
            THEN Reject(401, "Utilisateur inactif ou inexistant", r)
            ELSE Proceed(RealUser(CHOOSE u \in found : TRUE), r)

(* authenticate answering 401 to a demo cookie that does not open the demo path *)
authenticate_demoBlocks(cookies) ==
    IF DemoAcces(cookies) # {}
    THEN Proceed(DemoUser(CHOOSE a \in DemoAcces(cookies) : TRUE), DemoReads(cookies))
    ELSE IF cookies.demo_token # None
    THEN Reject(401, "Non authentifie - Token invalide", DemoReads(cookies))
    ELSE authenticateUser(cookies, DemoReads(cookies))

authenticate(cookies) ==
    IF DemoAcces(cookies) # {}
    THEN Proceed(DemoUser(CHOOSE a \in DemoAcces(cookies) : TRUE), DemoReads(cookies))
    ELSE authenticateUser(cookies, DemoReads(cookies))

(***************************************************************************)
(* middleware/auth.ts: requireRole                                         *)
(***************************************************************************)
(* requireRole letting every attached identity through *)
requireRole_anyRole(roles, user) ==
    IF user = None
    THEN [next |-> FALSE, status |-> 401, error |-> "Non authentifie",
          requiredRoles |-> None, yourRole |-> None]
    ELSE [next |-> TRUE, status |-> 0, error |-> "",
          requiredRoles |-> None, yourRole |-> None]

(* lines 147-163; user is req.user, None when no identity is attached *)
requireRole(roles, user) ==
    IF user = None
    THEN [next |-> FALSE, status |-> 401, error |-> "Non authentifie",
          requiredRoles |-> None, yourRole |-> None]
    ELSE IF user[1].role \notin roles
    THEN [next |-> FALSE, status |-> 403, error |-> "Acces refuse - Role insuffisant",
          requiredRoles |-> Some(roles), yourRole |-> Some(user[1].role)]
    ELSE [next |-> TRUE, status |-> 0, error |-> "",
          requiredRoles |-> None, yourRole |-> None]

(***************************************************************************)
(* middleware/auth.ts: authenticateOptional                                *)
(***************************************************************************)
(* lines 170-209: every path ends in next(); the identity is attached only *)
(* on the last one                                                         *)
authenticateOptional(cookies) ==
    LET found == {u \in utilisateurs : u.id = cookies.auth_token[1].userId}
    IN IF cookies.auth_token = None
       THEN [next |-> TRUE, status |-> 0, user |-> None, agenceId |-> None]
       ELSE IF ~verifyJWT(cookies.auth_token[1])
       THEN [next |-> TRUE, status |-> 0, user |-> None, agenceId |-> None]
       ELSE IF found # {} /\ (CHOOSE u \in found : TRUE).actif
       THEN [next |-> TRUE, status |-> 0,
             user |-> Some(RealUser(CHOOSE u \in found : TRUE)),
             agenceId |-> Some((CHOOSE u \in found : TRUE).agenceId)]
       ELSE [next |-> TRUE, status |-> 0, user |-> None, agenceId |-> None]

(* a request to a route mounted behind authenticateOptional *)
Optional(cookies) ==
    /\ last' = [op |-> "optional", cookies |-> cookies,
                auth |-> authenticateOptional(cookies)]
    /\ UNCHANGED <<clock, envSecret, teamTables, inflight, utilisateurs, sessions, accesTemporaires,
                   superAdmins, transactions, taches, modeles, issued>>

(***************************************************************************)
(* routes/admin-auth.ts: requireAdmin                                      *)
(***************************************************************************)
(* requireAdmin trusting any token the shared secret verifies *)
requireAdmin_sigOnly(cookies) ==
    IF cookies.admin_token = None
    THEN [next |-> FALSE, status |-> 401, error |-> "Non authentifie", admin |-> None]
    ELSE IF ~jwtVerify(cookies.admin_token[1], MwSecret)
    THEN [next |-> FALSE, status |-> 401, error |-> "Token invalide", admin |-> None]
    ELSE [next |-> TRUE, status |-> 0, error |-> "",
          admin |-> Some(cookies.admin_token[1].id)]

requireAdmin(cookies) ==
    IF cookies.admin_token = None
    THEN [next |-> FALSE, status |-> 401, error |-> "Non authentifie", admin |-> None]
    ELSE IF ~jwtVerify(cookies.admin_token[1], MwSecret)
    THEN [next |-> FALSE, status |-> 401, error |-> "Token invalide", admin |-> None]
    ELSE IF cookies.admin_token[1].type # "admin"
    THEN [next |-> FALSE, status |-> 401, error |-> "Acces non autorise", admin |-> None]
    ELSE LET found == {a \in superAdmins : a.id = cookies.admin_token[1].id}
         IN IF found = {} \/ ~(CHOOSE a \in found : TRUE).actif
            THEN [next |-> FALSE, status |-> 401,
                  error |-> "Compte non trouve ou desactive", admin |-> None]
            ELSE [next |-> TRUE, status |-> 0, error |-> "",
                  admin |-> Some((CHOOSE a \in found : TRUE).id)]

(* String.prototype.toLowerCase on the addresses the model uses *)
toLowerCase(email) == IF email = "ROOT@onlytrack.io" THEN "root@onlytrack.io" ELSE email

(* POST /api/admin/auth/connexion: the response, before any write *)
adminConnexion(email, motDePasse) ==
    LET found == {a \in superAdmins : a.email = toLowerCase(email)}
        admin == CHOOSE a \in found : TRUE
    IN IF email = "" \/ motDePasse = ""
       THEN [status |-> 400, error |-> "Email et mot de passe requis"]
       ELSE IF found = {}
       THEN [status |-> 401, error |-> "Email ou mot de passe incorrect"]
       ELSE IF ~admin.actif
       THEN [status |-> 401, error |-> "Ce compte a ete desactive"]
       ELSE IF ~verifyPassword(motDePasse, admin.motDePasse)
       THEN [status |-> 401, error |-> "Email ou mot de passe incorrect"]
       ELSE [status |-> 200, error |-> ""]

AdminConnexion(email, motDePasse) ==
    LET r == adminConnexion(email, motDePasse)
        admin == CHOOSE a \in superAdmins : a.email = toLowerCase(email)
        token == jwtSign("admin", UNDEF, admin.id, admin.email, UNDEF, UNDEF, UNDEF,
                         MwSecret, ADMIN_JWT_EXPIRATION)
    IN IF r.status = 200
       THEN /\ clock \in LoginDays
            /\ issued' = issued \cup {token}
            /\ last' = [op |-> "admin.connexion", email |-> email, res |-> r,
                        setCookie |-> Some(token)]
            /\ UNCHANGED <<clock, envSecret, teamTables, inflight, authTables, resourceTables>>
       ELSE /\ last' = [op |-> "admin.connexion", email |-> email, res |-> r,
                        setCookie |-> None]
            /\ UNCHANGED <<clock, envSecret, teamTables, inflight, authTables, resourceTables, issued>>

(***************************************************************************)
(* routes/auth.ts                                                          *)
(***************************************************************************)
(* z.string().email() *)
IsEmail(email) == email # "not-an-email"

FreshId(used, prefix, max) ==
    CHOOSE i \in {prefix \o ToString(n) : n \in 1..max} : i \notin used

(* the ids crypto.randomUUID() cannot return again: those of the rows and  *)
(* those named by a token handed out earlier                               *)
UsedUserIds ==
    {u.id : u \in utilisateurs} \cup {t.userId : t \in {i \in issued : i.userId # UNDEF}}

UpperCase == "ABCDEFGHIJKLMNOPQRSTUVWXYZ"
LowerCase == "abcdefghijklmnopqrstuvwxyz"
Numbers == "0123456789"
Special == "@#$%&*!?"

(* chars[k], k counted from 0 *)
CharAt(chars, k) == SubSeq(chars, k + 1, k + 1)

CharsOf(chars) == {CharAt(chars, k) : k \in 0..(Len(chars) - 1)}

(* the characters /[A-Z]/, /[0-9]/ and /[A-Za-z0-9]/ match *)
UpperChars == CharsOf(UpperCase)
DigitChars == CharsOf(Numbers)
AlphaNumChars == CharsOf(UpperCase) \cup CharsOf(LowerCase) \cup CharsOf(Numbers)

(* what the tests of validatePassword see of a password: its length and    *)
(* whether /[A-Z]/, /[0-9]/ and /[^A-Za-z0-9]/ match                       *)
Chars(password) ==
    [length |-> Len(password),
     upper |-> CharsOf(password) \cap UpperChars # {},
     digit |-> CharsOf(password) \cap DigitChars # {},
     special |-> CharsOf(password) \ AlphaNumChars # {}]

(* lib/auth.ts validatePassword: isValid *)
validatePassword(password) ==
    IF Chars(password).length < 8 THEN FALSE
    ELSE IF ~Chars(password).upper THEN FALSE
    ELSE IF ~Chars(password).digit THEN FALSE
    ELSE IF ~Chars(password).special THEN FALSE
    ELSE TRUE

(* getRandom(chars, count) for the values draws[1..count] of randomInt *)
getRandom(chars, draws) ==
    [n \in 1..Len(draws) |-> CharAt(chars, draws[n])]

RECURSIVE Shuffle(_, _, _)
(* the loop of lines 88-91: for i from length-1 down to 1 swap password[i] *)
(* and password[j], j = js[i] the value of randomInt(0, i + 1)             *)
Shuffle(password, i, js) ==
    IF i <= 0 THEN password
    ELSE Shuffle([password EXCEPT ![i + 1] = password[js[i] + 1],
                                  ![js[i] + 1] = password[i + 1]],
                 i - 1, js)

RECURSIVE Join(_)
(* Array.prototype.join("") *)
Join(array) ==
    IF array = <<>> THEN "" ELSE Head(array) \o Join(Tail(array))

(* a generator that leaves the special characters out *)
generateSecurePassword_noSpecial(d) ==
    LET parts == getRandom(UpperCase, d.upper) \o getRandom(Numbers, d.numbers)
                    \o getRandom(LowerCase, d.special) \o getRandom(LowerCase, d.lower)
    IN Join(Shuffle(parts, Len(parts) - 1, d.shuffle))

(* lib/auth.ts generateSecurePassword, d the values crypto.randomInt returns *)
generateSecurePassword(d) ==
    LET parts == getRandom(UpperCase, d.upper) \o getRandom(Numbers, d.numbers)
                    \o getRandom(Special, d.special) \o getRandom(LowerCase, d.lower)
    IN Join(Shuffle(parts, Len(parts) - 1, d.shuffle))

(* a call of generateSecurePassword with the draws the state holds *)
GenerateSecurePassword ==
    /\ last.op = "randomInt"
    /\ last' = [op |-> "generateSecurePassword", draws |-> last.draws,
                password |-> generateSecurePassword(last.draws)]
    /\ UNCHANGED <<clock, envSecret, teamTables, inflight, authTables,
                   resourceTables, issued>>

(* inscriptionSchema *)
InscriptionValide(body) ==
    /\ IsEmail(body.email)
    /\ Chars(body.password).length >= 8
    /\ body.password = body.confirmPassword
    /\ body.nomAgence # ""

(* the owner row of a sign-up, created already verified *)
NewOwner_verified(req) ==
    LET id == FreshId(UsedUserIds, "u", MaxUsers)
    IN [id |-> id, email |-> req.email,
        motDePasseHash |-> hashPassword(req.password, id), role |-> "owner",
        agenceId |-> req.agenceId, emailVerifie |-> TRUE, actif |-> TRUE,
        dateCreation |-> clock, tokenVerification |-> None]

(* lines 87-105: the owner row *)
NewOwner(req) ==
    LET id == FreshId(UsedUserIds, "u", MaxUsers)
    IN [id |-> id, email |-> req.email,
        motDePasseHash |-> hashPassword(req.password, id), role |-> "owner",
        agenceId |-> req.agenceId, emailVerifie |-> FALSE, actif |-> TRUE,
        dateCreation |-> clock, tokenVerification |-> Some("verif-" \o id)]

(* POST /api/auth/inscription up to the insert of the agency (lines 54-83) *)
InscriptionDebut(body) ==
    LET agenceId == FreshId({a.id : a \in agences}, "a", MaxAgences)
        refuse(status) ==
            /\ last' = [op |-> "inscription", body |-> body, status |-> status]
            /\ UNCHANGED <<clock, envSecret, teamTables, inflight, authTables,
                           resourceTables, issued>>
    IN IF ~InscriptionValide(body) THEN refuse(400)
       ELSE IF ~validatePassword(body.password) THEN refuse(400)
       ELSE IF \E u \in utilisateurs : u.email = body.email THEN refuse(400)
       ELSE /\ Cardinality({r \in inflight : r.kind = "inscription"}) < MaxInscriptions
            /\ Cardinality(agences) < MaxAgences
            /\ agences' = agences \cup
                  {[id |-> agenceId, nom |-> body.nomAgence, plan |-> "free",
                    statutAbonnement |-> "actif", idAbonnementStripe |-> None]}
            /\ inflight' = inflight \cup
                  {[kind |-> "inscription", email |-> body.email,
                    password |-> body.password, agenceId |-> agenceId]}
            /\ last' = [op |-> "inscription.agence", body |-> body, status |-> 0]
            /\ UNCHANGED <<clock, envSecret, invitations, authTables,
                           resourceTables, issued>>

(* the owner insert on a table without the unique index on email *)
InscriptionFin_noIndex(req) ==
    /\ req \in inflight
    /\ req.kind = "inscription"
    /\ inflight' = inflight \ {req}
    /\ Cardinality(UsedUserIds) < MaxUsers
    /\ utilisateurs' = utilisateurs \cup {NewOwner(req)}
    /\ last' = [op |-> "inscription.fin", req |-> req, status |-> 201]
    /\ UNCHANGED <<clock, envSecret, teamTables, sessions, accesTemporaires,
                   superAdmins, resourceTables, issued>>

(* the rest of the handler (lines 85-133): the insert of the owner, which  *)
(* the unique index on utilisateurs.email refuses when the email is taken  *)
InscriptionFin(req) ==
    /\ req \in inflight
    /\ req.kind = "inscription"
    /\ inflight' = inflight \ {req}
    /\ IF \E u \in utilisateurs : u.email = req.email
       THEN /\ last' = [op |-> "inscription.fin", req |-> req, status |-> 500]
            /\ UNCHANGED utilisateurs
       ELSE /\ Cardinality(UsedUserIds) < MaxUsers
            /\ utilisateurs' = utilisateurs \cup {NewOwner(req)}
            /\ last' = [op |-> "inscription.fin", req |-> req, status |-> 201]
    /\ UNCHANGED <<clock, envSecret, teamTables, sessions, accesTemporaires,
                   superAdmins, resourceTables, issued>>

(* a sign-up whose two inserts share a transaction: stopping rolls the   *)
(* agency back                                                            *)
InscriptionCrash_rollback(req) ==
    /\ req \in inflight
    /\ req.kind = "inscription"
    /\ inflight' = inflight \ {req}
    /\ agences' = {a \in agences : a.id # req.agenceId}
    /\ last' = [op |-> "inscription.crash", req |-> req, status |-> 0]
    /\ UNCHANGED <<clock, envSecret, invitations, authTables, resourceTables,
                   issued>>

(* the server stops between the two inserts of a sign-up *)
InscriptionCrash(req) ==
    /\ req \in inflight
    /\ req.kind = "inscription"
    /\ inflight' = inflight \ {req}
    /\ last' = [op |-> "inscription.crash", req |-> req, status |-> 0]
    /\ UNCHANGED <<clock, envSecret, teamTables, authTables, resourceTables,
                   issued>>

(* GET /api/auth/verifier-email/:token *)
VerifierEmail(token) ==
    LET found == {u \in utilisateurs :
                     u.tokenVerification = Some(token) /\ ~u.emailVerifie}
        user == CHOOSE u \in found : TRUE
    IN IF found = {}
       THEN /\ last' = [op |-> "verifier-email", token |-> token, status |-> 400]
            /\ UNCHANGED <<clock, envSecret, teamTables, inflight, authTables,
                           resourceTables, issued>>
       ELSE IF clock - user.dateCreation > DAY
       THEN /\ last' = [op |-> "verifier-email", token |-> token, status |-> 400]
            /\ UNCHANGED <<clock, envSecret, teamTables, inflight, authTables,
                           resourceTables, issued>>
       ELSE /\ utilisateurs' =
                  {IF u.id = user.id
                   THEN [u EXCEPT !.emailVerifie = TRUE, !.tokenVerification = None]
                   ELSE u : u \in utilisateurs}
            /\ last' = [op |-> "verifier-email", token |-> token, status |-> 200]
            /\ UNCHANGED <<clock, envSecret, teamTables, inflight, sessions,
                           accesTemporaires, superAdmins, resourceTables, issued>>

(* connexion telling an unknown email from a wrong password *)
connexion_leaky(email, password) ==
    LET found == {u \in utilisateurs : u.email = email}
        user == CHOOSE u \in found : TRUE
    IN IF ~IsEmail(email)
       THEN [status |-> 400, error |-> "Donnees invalides", needsEmailVerification |-> FALSE]
       ELSE IF found = {}
       THEN [status |-> 401, error |-> "Aucun compte pour cet email",
             needsEmailVerification |-> FALSE]
       ELSE IF ~verifyPassword(password, user.motDePasseHash)
       THEN [status |-> 401, error |-> "Email ou mot de passe incorrect",
             needsEmailVerification |-> FALSE]
       ELSE IF ~user.emailVerifie
       THEN [status |-> 403,
             error |-> "Veuillez verifier votre email avant de vous connecter",
             needsEmailVerification |-> TRUE]
       ELSE IF ~user.actif
       THEN [status |-> 403, error |-> "Compte desactive", needsEmailVerification |-> FALSE]
       ELSE [status |-> 200, error |-> "", needsEmailVerification |-> FALSE]

(* POST /api/auth/connexion: the response, before any write *)
connexion(email, password) ==
    LET found == {u \in utilisateurs : u.email = email}
        user == CHOOSE u \in found : TRUE
    IN IF ~IsEmail(email)
       THEN [status |-> 400, error |-> "Donnees invalides", needsEmailVerification |-> FALSE]
       ELSE IF found = {}
       THEN [status |-> 401, error |-> "Email ou mot de passe incorrect",
             needsEmailVerification |-> FALSE]
       ELSE IF ~verifyPassword(password, user.motDePasseHash)
       THEN [status |-> 401, error |-> "Email ou mot de passe incorrect",
             needsEmailVerification |-> FALSE]
       ELSE IF ~user.emailVerifie
       THEN [status |-> 403,
             error |-> "Veuillez verifier votre email avant de vous connecter",
             needsEmailVerification |-> TRUE]
       ELSE IF ~user.actif
       THEN [status |-> 403, error |-> "Compte desactive", needsEmailVerification |-> FALSE]
       ELSE [status |-> 200, error |-> "", needsEmailVerification |-> FALSE]

(* the Session row expiring with the day instead of the week *)
NewSession_oneDay(user, token) ==
    [id |-> FreshId({s.id : s \in sessions}, "s", MaxSessions),
     utilisateurId |-> user.id,
     tokenHash |-> hashToken(token),
     dateCreation |-> clock,
     dateExpiration |-> clock + DAY]

(* lines 183-196: the Session row of a successful login *)
NewSession(user, token) ==
    [id |-> FreshId({s.id : s \in sessions}, "s", MaxSessions),
     utilisateurId |-> user.id,
     tokenHash |-> hashToken(token),
     dateCreation |-> clock,
     dateExpiration |-> clock + SESSION_EXPIRATION]

Connexion(email, password) ==
    LET r == connexion(email, password)
        user == CHOOSE u \in utilisateurs : u.email = email
        token == generateJWT(user.id, user.agenceId, user.role)
    IN IF r.status = 200
       THEN /\ clock \in LoginDays
            /\ Cardinality(sessions) < MaxSessions
            /\ sessions' = sessions \cup {NewSession(user, token)}
            /\ issued' = issued \cup {token}
            /\ last' = [op |-> "connexion", email |-> email, password |-> password,
                        res |-> r, setCookie |-> Some(token),
                        cleared |-> {"demo_token"}]
            /\ UNCHANGED <<clock, envSecret, teamTables, inflight, utilisateurs, accesTemporaires,
                           superAdmins, resourceTables>>
       ELSE /\ last' = [op |-> "connexion", email |-> email, password |-> password,
                        res |-> r, setCookie |-> None, cleared |-> {}]
            /\ UNCHANGED <<clock, envSecret, teamTables, inflight, authTables, resourceTables,
                           issued>>

(* a logout that ends every Session of the principal *)
Deconnexion_allDevices(cookies) ==
    LET auth == authenticate(cookies)
    IN IF ~auth.next
       THEN /\ last' = [op |-> "deconnexion", cookies |-> cookies, auth |-> auth,
                        status |-> auth.status, cleared |-> {}]
            /\ UNCHANGED <<clock, envSecret, teamTables, inflight, authTables,
                           resourceTables, issued>>
       ELSE /\ sessions' = {s \in sessions : s.utilisateurId # auth.user[1].id}
            /\ last' = [op |-> "deconnexion", cookies |-> cookies, auth |-> auth,
                        status |-> 200, cleared |-> {"auth_token", "demo_token"}]
            /\ UNCHANGED <<clock, envSecret, teamTables, inflight, utilisateurs,
                           accesTemporaires, superAdmins, resourceTables, issued>>

(* POST /api/auth/deconnexion *)
Deconnexion(cookies) ==
    LET auth == authenticate(cookies)
        deleted == IF cookies.auth_token = None THEN {}
                   ELSE {s \in sessions : s.tokenHash = hashToken(cookies.auth_token[1])}
    IN IF ~auth.next
       THEN /\ last' = [op |-> "deconnexion", cookies |-> cookies, auth |-> auth,
                        status |-> auth.status, cleared |-> {}]
            /\ UNCHANGED <<clock, envSecret, teamTables, inflight, authTables, resourceTables,
                           issued>>
       ELSE /\ sessions' = sessions \ deleted
            /\ last' = [op |-> "deconnexion", cookies |-> cookies, auth |-> auth,
                        status |-> 200, cleared |-> {"auth_token", "demo_token"}]
            /\ UNCHANGED <<clock, envSecret, teamTables, inflight, utilisateurs, accesTemporaires,
                           superAdmins, resourceTables, issued>>

(* GET /api/auth/moi *)
Moi(cookies) ==
    LET auth == authenticate(cookies)
        found == {u \in utilisateurs : u.id = auth.user[1].id}
    IN /\ last' = [op |-> "moi", cookies |-> cookies, auth |-> auth,
                   status |-> IF ~auth.next THEN auth.status
                              ELSE IF auth.user[1].isDemo THEN 200
                              ELSE IF found = {} THEN 404 ELSE 200]
       /\ UNCHANGED <<clock, envSecret, teamTables, inflight, authTables, resourceTables, issued>>

(***************************************************************************)
(* routes/acces-temporaires.ts                                             *)
(***************************************************************************)
(* lines 52-57: joursValidite is None when the body leaves it out *)
DateExpirationAcces(joursValidite) ==
    IF joursValidite # None /\ joursValidite[1] > 0
    THEN Some(clock + joursValidite[1] * DAY)
    ELSE None

(* POST /api/acces-temporaires *)
CreerAcces(cookies, nom, joursValidite) ==
    LET auth == authenticate(cookies)
        id == FreshId({a.id : a \in accesTemporaires}, "g", MaxGrants)
        token == FreshId({a.token : a \in accesTemporaires}, "raw-", MaxGrants)
        row == [id |-> id, agenceId |-> auth.agenceId[1], nom |-> nom,
                email |-> None, token |-> token,
                dateExpiration |-> DateExpirationAcces(joursValidite),
                actif |-> TRUE, creePar |-> auth.user[1].id]
    IN IF ~auth.next
       THEN /\ last' = [op |-> "acces.creer", cookies |-> cookies, auth |-> auth,
                        status |-> auth.status]
            /\ UNCHANGED <<clock, envSecret, teamTables, inflight, authTables, resourceTables, issued>>
       ELSE IF nom = ""
       THEN /\ last' = [op |-> "acces.creer", cookies |-> cookies, auth |-> auth,
                        status |-> 400]
            /\ UNCHANGED <<clock, envSecret, teamTables, inflight, authTables, resourceTables, issued>>
       ELSE \/ /\ Cardinality(accesTemporaires) < MaxGrants
               /\ clock \in LoginDays
               /\ accesTemporaires' = accesTemporaires \cup {row}
               /\ last' = [op |-> "acces.creer", cookies |-> cookies, auth |-> auth,
                           status |-> 201]
               /\ UNCHANGED <<clock, envSecret, teamTables, inflight, utilisateurs,
                              sessions, superAdmins, resourceTables, issued>>
            \/ (* the id of a demo principal, "demo-" and a UUID, is longer   *)
               (* than cree_par varchar(36): a server in strict SQL mode      *)
               (* refuses the insert, another one truncates the value         *)
               /\ auth.user[1].isDemo
               /\ last' = [op |-> "acces.creer", cookies |-> cookies, auth |-> auth,
                           status |-> 500]
               /\ UNCHANGED <<clock, envSecret, teamTables, inflight, authTables,
                              resourceTables, issued>>

(* a revoke that purges the row *)
RevoquerAcces_purge(cookies, id) ==
    LET auth == authenticate(cookies)
        existing == {a \in accesTemporaires :
                        a.id = id /\ a.agenceId = auth.agenceId[1]}
    IN IF ~auth.next
       THEN /\ last' = [op |-> "acces.revoquer", cookies |-> cookies, auth |-> auth,
                        id |-> id, status |-> auth.status]
            /\ UNCHANGED <<clock, envSecret, teamTables, inflight, authTables,
                           resourceTables, issued>>
       ELSE IF existing = {}
       THEN /\ last' = [op |-> "acces.revoquer", cookies |-> cookies, auth |-> auth,
                        id |-> id, status |-> 404]
            /\ UNCHANGED <<clock, envSecret, teamTables, inflight, authTables,
                           resourceTables, issued>>
       ELSE /\ accesTemporaires' = {a \in accesTemporaires : a.id # id}
            /\ last' = [op |-> "acces.revoquer", cookies |-> cookies, auth |-> auth,
                        id |-> id, status |-> 200]
            /\ UNCHANGED <<clock, envSecret, teamTables, inflight, utilisateurs,
                           sessions, superAdmins, resourceTables, issued>>

(* DELETE /api/acces-temporaires/:id *)
RevoquerAcces(cookies, id) ==
    LET auth == authenticate(cookies)
        existing == {a \in accesTemporaires :
                        a.id = id /\ a.agenceId = auth.agenceId[1]}
    IN IF ~auth.next
       THEN /\ last' = [op |-> "acces.revoquer", cookies |-> cookies, auth |-> auth,
                        id |-> id, status |-> auth.status]
            /\ UNCHANGED <<clock, envSecret, teamTables, inflight, authTables, resourceTables, issued>>
       ELSE IF existing = {}
       THEN /\ last' = [op |-> "acces.revoquer", cookies |-> cookies, auth |-> auth,
                        id |-> id, status |-> 404]
            /\ UNCHANGED <<clock, envSecret, teamTables, inflight, authTables, resourceTables, issued>>
       ELSE /\ accesTemporaires' =
                  {IF a.id = id THEN [a EXCEPT !.actif = FALSE] ELSE a :
                      a \in accesTemporaires}
            /\ last' = [op |-> "acces.revoquer", cookies |-> cookies, auth |-> auth,
                        id |-> id, status |-> 200]
            /\ UNCHANGED <<clock, envSecret, teamTables, inflight, utilisateurs, sessions, superAdmins,
                           resourceTables, issued>>

(* GET /api/acces-temporaires/valider/:token: the response *)
valider(token) ==
    LET found == {a \in accesTemporaires : a.token = token}
        acces == CHOOSE a \in found : TRUE
    IN IF found = {}
       THEN [status |-> 404, valid |-> FALSE]
       ELSE IF ~acces.actif
       THEN [status |-> 403, valid |-> FALSE]
       ELSE IF acces.dateExpiration # None /\ clock > acces.dateExpiration[1]
       THEN [status |-> 403, valid |-> FALSE]
       ELSE [status |-> 200, valid |-> TRUE]

Valider(token) ==
    /\ last' = [op |-> "acces.valider", token |-> token,
                status |-> valider(token).status, valid |-> valider(token).valid,
                setCookie |-> None]
    /\ UNCHANGED <<clock, envSecret, teamTables, inflight, authTables, resourceTables, issued>>

(***************************************************************************)
(* routes/demo.ts                                                          *)
(***************************************************************************)
(* GET /api/demo/validate/:token: the response status *)
demoValidate(token) ==
    LET found == {a \in accesTemporaires : a.token = token}
        acces == CHOOSE a \in found : TRUE
    IN IF found = {} THEN 404
       ELSE IF ~acces.actif THEN 403
       ELSE IF acces.dateExpiration # None /\ acces.dateExpiration[1] < clock THEN 403
       ELSE 200

(* a validation that hands out a demo token as the exchange does *)
DemoValidate_mints(token) ==
    LET acces == CHOOSE a \in accesTemporaires : a.token = token
        demoToken == jwtSign("demo", UNDEF, UNDEF, UNDEF, acces.id, acces.agenceId,
                             UNDEF, MwSecret, DEMO_JWT_EXPIRATION)
    IN /\ last' = [op |-> "demo.validate", token |-> token,
                   status |-> demoValidate(token), valid |-> demoValidate(token) = 200,
                   setCookie |-> None]
       /\ issued' = IF demoValidate(token) = 200 THEN issued \cup {demoToken}
                    ELSE issued
       /\ UNCHANGED <<clock, envSecret, teamTables, inflight, authTables,
                      resourceTables>>

DemoValidate(token) ==
    /\ last' = [op |-> "demo.validate", token |-> token,
                status |-> demoValidate(token), valid |-> demoValidate(token) = 200,
                setCookie |-> None]
    /\ UNCHANGED <<clock, envSecret, teamTables, inflight, authTables, resourceTables, issued>>

(* demoAccess without the test of the actif flag *)
demoAccess_noActif(token) ==
    LET found == {a \in accesTemporaires : a.token = token}
        acces == CHOOSE a \in found : TRUE
    IN IF found = {} THEN 404
       ELSE IF acces.dateExpiration # None /\ acces.dateExpiration[1] < clock THEN 403
       ELSE 200

(* POST /api/demo/access/:token: the response status *)
demoAccess(token) ==
    LET found == {a \in accesTemporaires : a.token = token}
        acces == CHOOSE a \in found : TRUE
    IN IF found = {} THEN 404
       ELSE IF ~acces.actif THEN 403
       ELSE IF acces.dateExpiration # None /\ acces.dateExpiration[1] < clock THEN 403
       ELSE 200

DemoAccess(token) ==
    LET acces == CHOOSE a \in accesTemporaires : a.token = token
        demoToken == jwtSign("demo", UNDEF, UNDEF, UNDEF, acces.id, acces.agenceId,
                             UNDEF, MwSecret, DEMO_JWT_EXPIRATION)
    IN IF demoAccess(token) = 200
       THEN /\ Cardinality({t \in issued \cup {demoToken} : t.type = "demo"})
                  <= MaxDemoTokens
            /\ issued' = issued \cup {demoToken}
            /\ last' = [op |-> "demo.access", token |-> token, status |-> 200,
                        valid |-> TRUE, setCookie |-> Some(demoToken)]
            /\ UNCHANGED <<clock, envSecret, teamTables, inflight, authTables, resourceTables>>
       ELSE /\ last' = [op |-> "demo.access", token |-> token,
                        status |-> demoAccess(token), valid |-> FALSE,
                        setCookie |-> None]
            /\ UNCHANGED <<clock, envSecret, teamTables, inflight, authTables, resourceTables, issued>>

(***************************************************************************)
(* routes/admin.ts                                                         *)
(***************************************************************************)
(* GET /api/admin/auth/moi answering from the token alone *)
adminMoi_noActif(cookies) ==
    IF cookies.admin_token = None
    THEN [status |-> 401, error |-> "Non authentifie", cleared |-> {}]
    ELSE IF ~jwtVerify(cookies.admin_token[1], MwSecret)
    THEN [status |-> 401, error |-> "Token invalide", cleared |-> {"admin_token"}]
    ELSE IF cookies.admin_token[1].type # "admin"
    THEN [status |-> 401, error |-> "Token invalide", cleared |-> {}]
    ELSE [status |-> 200, error |-> "", cleared |-> {}]

(* GET /api/admin/auth/moi (routes/admin-auth.ts lines 104-140): the answer *)
(* and the cookies it clears                                               *)
adminMoi(cookies) ==
    IF cookies.admin_token = None
    THEN [status |-> 401, error |-> "Non authentifie", cleared |-> {}]
    ELSE IF ~jwtVerify(cookies.admin_token[1], MwSecret)
    THEN [status |-> 401, error |-> "Token invalide", cleared |-> {"admin_token"}]
    ELSE IF cookies.admin_token[1].type # "admin"
    THEN [status |-> 401, error |-> "Token invalide", cleared |-> {}]
    ELSE LET found == {a \in superAdmins : a.id = cookies.admin_token[1].id}
         IN IF found = {} \/ ~(CHOOSE a \in found : TRUE).actif
            THEN [status |-> 401, error |-> "Compte non trouve ou desactive",
                  cleared |-> {"admin_token"}]
            ELSE [status |-> 200, error |-> "", cleared |-> {}]

AdminMoi(cookies) ==
    /\ last' = [op |-> "admin.moi", cookies |-> cookies,
                status |-> adminMoi(cookies).status,
                cleared |-> adminMoi(cookies).cleared]
    /\ UNCHANGED <<clock, envSecret, teamTables, inflight, authTables,
                   resourceTables, issued>>

(* PATCH /api/admin/admins/:id; body fields are None when undefined *)
AdminPatchAdmin(cookies, id, body) ==
    LET adm == requireAdmin(cookies)
        patch(a) == [a EXCEPT
                       !.actif = IF body.actif = None THEN @ ELSE body.actif[1],
                       !.motDePasse = IF body.motDePasse = None THEN @
                                      ELSE hashPassword(body.motDePasse[1], "patch")]
    IN IF ~adm.next
       THEN /\ last' = [op |-> "admin.patchAdmin", cookies |-> cookies,
                        status |-> adm.status]
            /\ UNCHANGED <<clock, envSecret, teamTables, inflight, authTables,
                           resourceTables, issued>>
       ELSE IF body.actif = None /\ body.motDePasse = None
       THEN /\ last' = [op |-> "admin.patchAdmin", cookies |-> cookies,
                        status |-> 400]
            /\ UNCHANGED <<clock, envSecret, teamTables, inflight, authTables,
                           resourceTables, issued>>
       ELSE /\ superAdmins' = {IF a.id = id THEN patch(a) ELSE a : a \in superAdmins}
            /\ last' = [op |-> "admin.patchAdmin", cookies |-> cookies,
                        status |-> 200]
            /\ UNCHANGED <<clock, envSecret, teamTables, inflight, utilisateurs,
                           sessions, accesTemporaires, resourceTables, issued>>

(* POST /api/admin/acces-temporaires *)
AdminCreerAcces(cookies, body) ==
    LET adm == requireAdmin(cookies)
        row == [id |-> FreshId({a.id : a \in accesTemporaires}, "g", MaxGrants),
                agenceId |-> body.agenceId, nom |-> body.nom, email |-> None,
                token |-> FreshId({a.token : a \in accesTemporaires}, "raw-", MaxGrants),
                dateExpiration |-> IF body.dureeJours # None /\ body.dureeJours[1] # 0
                                   THEN Some(clock + body.dureeJours[1] * DAY)
                                   ELSE None,
                actif |-> TRUE, creePar |-> adm.admin[1]]
    IN IF ~adm.next
       THEN /\ last' = [op |-> "admin.acces.creer", cookies |-> cookies, adm |-> adm,
                        status |-> adm.status]
            /\ UNCHANGED <<clock, envSecret, teamTables, inflight, authTables,
                           resourceTables, issued>>
       ELSE IF body.agenceId = "" \/ body.nom = ""
       THEN /\ last' = [op |-> "admin.acces.creer", cookies |-> cookies, adm |-> adm,
                        status |-> 400]
            /\ UNCHANGED <<clock, envSecret, teamTables, inflight, authTables,
                           resourceTables, issued>>
       ELSE /\ Cardinality(accesTemporaires) < MaxGrants
            /\ accesTemporaires' = accesTemporaires \cup {row}
            /\ last' = [op |-> "admin.acces.creer", cookies |-> cookies, adm |-> adm,
                        status |-> 201]
            /\ UNCHANGED <<clock, envSecret, teamTables, inflight, utilisateurs,
                           sessions, superAdmins, resourceTables, issued>>

(* DELETE /api/admin/acces-temporaires/:id *)
AdminRevoquerAcces(cookies, id) ==
    LET adm == requireAdmin(cookies)
    IN IF ~adm.next
       THEN /\ last' = [op |-> "admin.acces.revoquer", cookies |-> cookies,
                        adm |-> adm, id |-> id, status |-> adm.status]
            /\ UNCHANGED <<clock, envSecret, teamTables, inflight, authTables,
                           resourceTables, issued>>
       ELSE /\ accesTemporaires' =
                  {IF a.id = id THEN [a EXCEPT !.actif = FALSE] ELSE a :
                      a \in accesTemporaires}
            /\ last' = [op |-> "admin.acces.revoquer", cookies |-> cookies,
                        adm |-> adm, id |-> id, status |-> 200]
            /\ UNCHANGED <<clock, envSecret, teamTables, inflight, utilisateurs,
                           sessions, superAdmins, resourceTables, issued>>

(* GET /api/admin/check *)
AdminCheck(cookies) ==
    LET adm == requireAdmin(cookies)
    IN /\ last' = [op |-> "admin.check", cookies |-> cookies, adm |-> adm,
                   status |-> IF adm.next THEN 200 ELSE adm.status]
       /\ UNCHANGED <<clock, envSecret, teamTables, inflight, authTables, resourceTables, issued>>

(* PATCH /api/admin/utilisateurs/:id; body fields are None when undefined *)
AdminPatchUtilisateur(cookies, id, body) ==
    LET adm == requireAdmin(cookies)
        patch(u) == [u EXCEPT
                       !.role = IF body.role = None THEN @ ELSE body.role[1],
                       !.actif = IF body.actif = None THEN @ ELSE body.actif[1],
                       !.emailVerifie = IF body.emailVerifie = None THEN @
                                        ELSE body.emailVerifie[1]]
    IN IF ~adm.next
       THEN /\ last' = [op |-> "admin.patchUtilisateur", cookies |-> cookies,
                        status |-> adm.status]
            /\ UNCHANGED <<clock, envSecret, teamTables, inflight, authTables, resourceTables,
                           issued>>
       ELSE IF body.role = None /\ body.actif = None /\ body.emailVerifie = None
       THEN /\ last' = [op |-> "admin.patchUtilisateur", cookies |-> cookies,
                        status |-> 400]
            /\ UNCHANGED <<clock, envSecret, teamTables, inflight, authTables, resourceTables,
                           issued>>
       ELSE /\ utilisateurs' = {IF u.id = id THEN patch(u) ELSE u : u \in utilisateurs}
            /\ last' = [op |-> "admin.patchUtilisateur", cookies |-> cookies,
                        status |-> 200]
            /\ UNCHANGED <<clock, envSecret, teamTables, inflight, sessions, accesTemporaires, superAdmins,
                           resourceTables, issued>>

Tick(d, max) ==
    /\ clock + d <= max
    /\ clock' = clock + d
    /\ last' = [op |-> "tick"]
    /\ UNCHANGED <<envSecret, teamTables, inflight, authTables, resourceTables,
                   issued>>

(***************************************************************************)
(* routes/transactions.ts (router.use(authenticate))                       *)
(***************************************************************************)
(* A handler behind authenticate that leaves the database alone *)
Answer(l) ==
    /\ last' = l
    /\ UNCHANGED <<clock, envSecret, teamTables, inflight, authTables, resourceTables, issued>>

(* lines 37-56: the where clause of the list.  The query is built in       *)
(* dynamic mode, where each call of where() replaces the clause set by the *)
(* call before it                                                          *)
TransactionsWhere(agenceId, query, row) ==
    IF query.dateFin # None THEN row.date <= query.dateFin[1]
    ELSE IF query.dateDebut # None THEN row.date >= query.dateDebut[1]
    ELSE IF query.payee # None THEN row.payee = (query.payee[1] = "true")
    ELSE IF query.modelId # None THEN row.modeleId = query.modelId
    ELSE row.agenceId = agenceId

(* GET /api/transactions; orderBy only orders the response *)
TransactionsList(cookies, query) ==
    LET auth == authenticate(cookies)
    IN Answer([op |-> "transactions.list", cookies |-> cookies, auth |-> auth,
               status |-> IF auth.next THEN 200 ELSE auth.status,
               rows |-> IF auth.next
                        THEN {r \in transactions :
                                 TransactionsWhere(auth.agenceId[1], query, r)}
                        ELSE {}])

(* POST /api/transactions *)
TransactionsPost(cookies, body) ==
    LET auth == authenticate(cookies)
        row == [id |-> FreshId({r.id : r \in transactions}, "t", MaxRows),
                agenceId |-> auth.agenceId[1], modeleId |-> body.modeleId,
                montant |-> body.montant[1],
                payee |-> IF body.payee = None THEN FALSE ELSE body.payee[1],
                date |-> clock]
    IN IF ~auth.next
       THEN Answer([op |-> "transactions.post", cookies |-> cookies, auth |-> auth,
                    status |-> auth.status])
       ELSE IF body.montant = None
       THEN Answer([op |-> "transactions.post", cookies |-> cookies, auth |-> auth,
                    status |-> 400])
       ELSE /\ Cardinality(transactions) < MaxRows
            /\ transactions' = transactions \cup {row}
            /\ last' = [op |-> "transactions.post", cookies |-> cookies,
                        auth |-> auth, status |-> 201]
            /\ UNCHANGED <<clock, envSecret, teamTables, inflight, authTables, taches, modeles, issued>>

(* PATCH /api/transactions/:id; set(updates) writes every column the body names *)
TransactionsPatch(cookies, id, updates) ==
    LET auth == authenticate(cookies)
        existing == {r \in transactions : r.id = id}
        set(r) == [r EXCEPT
                     !.agenceId = IF updates.agenceId = None THEN @
                                  ELSE updates.agenceId[1],
                     !.payee = IF updates.payee = None THEN @ ELSE updates.payee[1]]
    IN IF ~auth.next
       THEN Answer([op |-> "transactions.patch", cookies |-> cookies, auth |-> auth,
                    id |-> id, status |-> auth.status])
       ELSE IF existing = {}
               \/ (CHOOSE r \in existing : TRUE).agenceId # auth.agenceId[1]
       THEN Answer([op |-> "transactions.patch", cookies |-> cookies, auth |-> auth,
                    id |-> id, status |-> 404])
       ELSE /\ transactions' = {IF r.id = id THEN set(r) ELSE r : r \in transactions}
            /\ last' = [op |-> "transactions.patch", cookies |-> cookies,
                        auth |-> auth, id |-> id, status |-> 200]
            /\ UNCHANGED <<clock, envSecret, teamTables, inflight, authTables, taches, modeles, issued>>

(* DELETE /api/transactions/:id *)
TransactionsDelete(cookies, id) ==
    LET auth == authenticate(cookies)
        existing == {r \in transactions : r.id = id}
    IN IF ~auth.next
       THEN Answer([op |-> "transactions.delete", cookies |-> cookies, auth |-> auth,
                    id |-> id, status |-> auth.status])
       ELSE IF existing = {}
               \/ (CHOOSE r \in existing : TRUE).agenceId # auth.agenceId[1]
       THEN Answer([op |-> "transactions.delete", cookies |-> cookies, auth |-> auth,
                    id |-> id, status |-> 404])
       ELSE /\ transactions' = {r \in transactions : r.id # id}
            /\ last' = [op |-> "transactions.delete", cookies |-> cookies,
                        auth |-> auth, id |-> id, status |-> 200]
            /\ UNCHANGED <<clock, envSecret, teamTables, inflight, authTables, taches, modeles, issued>>

(***************************************************************************)
(* routes/models.ts (router.use(authenticate))                             *)
(***************************************************************************)
(* GET /api/models *)
ModelsList(cookies) ==
    LET auth == authenticate(cookies)
    IN Answer([op |-> "models.list", cookies |-> cookies, auth |-> auth,
               status |-> IF auth.next THEN 200 ELSE auth.status,
               rows |-> IF auth.next
                        THEN {r \in modeles : r.agenceId = auth.agenceId[1]}
                        ELSE {}])

(* GET /api/models/:id *)
ModelsGet(cookies, id) ==
    LET auth == authenticate(cookies)
        found == {r \in modeles : r.id = id}
    IN Answer([op |-> "models.get", cookies |-> cookies, auth |-> auth, id |-> id,
               status |-> IF ~auth.next THEN auth.status
                          ELSE IF found = {}
                                  \/ (CHOOSE r \in found : TRUE).agenceId
                                        # auth.agenceId[1]
                          THEN 404 ELSE 200])

(***************************************************************************)
(* routes/todos.ts (router.use(authenticate))                              *)
(***************************************************************************)
(* GET /api/todos *)
TodosList(cookies) ==
    LET auth == authenticate(cookies)
    IN Answer([op |-> "todos.list", cookies |-> cookies, auth |-> auth,
               status |-> IF auth.next THEN 200 ELSE auth.status,
               rows |-> IF auth.next
                        THEN {r \in taches : r.agenceId = auth.agenceId[1]}
                        ELSE {}])

(* POST /api/todos; texte is "" when the body has none *)
TodosPost(cookies, texte) ==
    LET auth == authenticate(cookies)
        row == [id |-> FreshId({r.id : r \in taches}, "k", MaxRows),
                agenceId |-> auth.agenceId[1], terminee |-> FALSE,
                dateCreation |-> clock]
    IN IF ~auth.next
       THEN Answer([op |-> "todos.post", cookies |-> cookies, auth |-> auth,
                    status |-> auth.status])
       ELSE IF texte = ""
       THEN Answer([op |-> "todos.post", cookies |-> cookies, auth |-> auth,
                    status |-> 400])
       ELSE /\ Cardinality(taches) < MaxRows
            /\ taches' = taches \cup {row}
            /\ last' = [op |-> "todos.post", cookies |-> cookies, auth |-> auth,
                        status |-> 201]
            /\ UNCHANGED <<clock, envSecret, teamTables, inflight, authTables, transactions, modeles,
                           issued>>

(* PATCH /api/todos/:id; terminee is None when the body has no boolean *)
TodosPatch(cookies, id, terminee) ==
    LET auth == authenticate(cookies)
        tache == {r \in taches : r.id = id /\ r.agenceId = auth.agenceId[1]}
    IN IF ~auth.next
       THEN Answer([op |-> "todos.patch", cookies |-> cookies, auth |-> auth,
                    id |-> id, status |-> auth.status])
       ELSE IF terminee = None
       THEN Answer([op |-> "todos.patch", cookies |-> cookies, auth |-> auth,
                    id |-> id, status |-> 400])
       ELSE IF tache = {}
       THEN Answer([op |-> "todos.patch", cookies |-> cookies, auth |-> auth,
                    id |-> id, status |-> 404])
       ELSE /\ taches' = {IF r.id = id THEN [r EXCEPT !.terminee = terminee[1]]
                          ELSE r : r \in taches}
            /\ last' = [op |-> "todos.patch", cookies |-> cookies, auth |-> auth,
                        id |-> id, status |-> 200]
            /\ UNCHANGED <<clock, envSecret, teamTables, inflight, authTables, transactions, modeles,
                           issued>>

(* DELETE /api/todos/:id *)
TodosDelete(cookies, id) ==
    LET auth == authenticate(cookies)
        tache == {r \in taches : r.id = id /\ r.agenceId = auth.agenceId[1]}
    IN IF ~auth.next
       THEN Answer([op |-> "todos.delete", cookies |-> cookies, auth |-> auth,
                    id |-> id, status |-> auth.status])
       ELSE IF tache = {}
       THEN Answer([op |-> "todos.delete", cookies |-> cookies, auth |-> auth,
                    id |-> id, status |-> 404])
       ELSE /\ taches' = {r \in taches : r.id # id}
            /\ last' = [op |-> "todos.delete", cookies |-> cookies, auth |-> auth,
                        id |-> id, status |-> 200]
            /\ UNCHANGED <<clock, envSecret, teamTables, inflight, authTables, transactions, modeles,
                           issued>>

(***************************************************************************)
(* routes/equipe.ts (router.use(authenticate))                             *)
(***************************************************************************)
(* what a route of the router answers before its handler runs: the 401 of  *)
(* authenticate, then the answer of requireRole("owner")                   *)
OwnerGuard(cookies) ==
    LET auth == authenticate(cookies)
    IN [auth |-> auth, guard |-> requireRole({"owner"}, auth.user),
        next |-> auth.next /\ requireRole({"owner"}, auth.user).next,
        status |-> IF ~auth.next THEN auth.status
                   ELSE requireRole({"owner"}, auth.user).status]

EquipeAnswer(op, cookies, g, id, status) ==
    [op |-> op, cookies |-> cookies, auth |-> g.auth, guard |-> g.guard,
     id |-> id, status |-> status]

(* GET /api/equipe *)
EquipeList(cookies) ==
    LET auth == authenticate(cookies)
    IN Answer([op |-> "equipe.list", cookies |-> cookies, auth |-> auth,
               status |-> IF auth.next THEN 200 ELSE auth.status,
               rows |-> IF auth.next
                        THEN {u \in utilisateurs : u.agenceId = auth.agenceId[1]}
                        ELSE {}])

(* inviterMembreSchema and the schema of /creer: the email and the role *)
MembreValide(body) == IsEmail(body.email) /\ body.role \in {"member", "model"}

(* POST /api/equipe/inviter, up to the existence check (lines 85-105) *)
InviterCheck(cookies, body) ==
    LET g == OwnerGuard(cookies)
        existing == {u \in utilisateurs :
                        u.email = body.email /\ u.agenceId = g.auth.agenceId[1]}
    IN IF ~g.next
       THEN Answer(EquipeAnswer("equipe.inviter", cookies, g, UNDEF, g.status))
       ELSE IF ~MembreValide(body)
       THEN Answer(EquipeAnswer("equipe.inviter", cookies, g, UNDEF, 400))
       ELSE IF existing # {}
       THEN Answer(EquipeAnswer("equipe.inviter", cookies, g, UNDEF, 400))
       ELSE /\ Cardinality({r \in inflight : r.kind = "inviter"}) < MaxInflight
            /\ inflight' = inflight \cup
                  {[kind |-> "inviter", email |-> body.email, role |-> body.role,
                    agenceId |-> g.auth.agenceId[1], par |-> g.auth.user[1].id,
                    password |-> "generated"]}
            /\ last' = EquipeAnswer("equipe.inviter.check", cookies, g, UNDEF, 0)
            /\ UNCHANGED <<clock, envSecret, teamTables, authTables, resourceTables,
                           issued>>

(* POST /api/equipe/creer, up to the existence check *)
CreerCheck(cookies, body) ==
    LET g == OwnerGuard(cookies)
        existing == {u \in utilisateurs : u.email = body.email}
    IN IF ~g.next
       THEN Answer(EquipeAnswer("equipe.creer", cookies, g, UNDEF, g.status))
       ELSE IF ~MembreValide(body)
       THEN Answer(EquipeAnswer("equipe.creer", cookies, g, UNDEF, 400))
       ELSE IF existing # {}
       THEN Answer(EquipeAnswer("equipe.creer", cookies, g, UNDEF, 400))
       ELSE /\ Cardinality({r \in inflight : r.kind = "creer"}) < MaxInflight
            /\ inflight' = inflight \cup
                  {[kind |-> "creer", email |-> body.email, role |-> body.role,
                    agenceId |-> g.auth.agenceId[1], par |-> g.auth.user[1].id,
                    password |-> body.motDePasse]}
            /\ last' = EquipeAnswer("equipe.creer.check", cookies, g, UNDEF, 0)
            /\ UNCHANGED <<clock, envSecret, teamTables, authTables, resourceTables,
                           issued>>

(* the member row both routes insert *)
NewMembre(req) ==
    LET id == FreshId(UsedUserIds, "u", MaxUsers)
    IN [id |-> id, email |-> req.email,
        motDePasseHash |-> hashPassword(req.password, id), role |-> req.role,
        agenceId |-> req.agenceId, emailVerifie |-> TRUE, actif |-> TRUE,
        dateCreation |-> clock, tokenVerification |-> None]

NewInvitation(req) ==
    [id |-> FreshId({i.id : i \in invitations}, "i", MaxInvitations),
     email |-> req.email, agenceId |-> req.agenceId, role |-> req.role,
     token |-> FreshId({i.token : i \in invitations}, "inv-", MaxInvitations),
     statut |-> "accepte", invitePar |-> req.par, dateCreation |-> clock,
     dateExpiration |-> clock + 2 * DAY]

(* the rest of the two handlers: the insert, which the unique index on     *)
(* utilisateurs.email refuses when the email is taken (caught, 500), and   *)
(* for /inviter the Invitation row                                          *)
MembreInsert(req) ==
    /\ req \in inflight
    /\ req.kind \in {"inviter", "creer"}
    /\ inflight' = inflight \ {req}
    /\ IF \E u \in utilisateurs : u.email = req.email
       THEN /\ last' = [op |-> "equipe." \o req.kind \o ".insert", req |-> req, status |-> 500]
            /\ UNCHANGED <<utilisateurs, invitations>>
       ELSE /\ Cardinality(UsedUserIds) < MaxUsers
            /\ req.kind = "inviter" => Cardinality(invitations) < MaxInvitations
            /\ utilisateurs' = utilisateurs \cup {NewMembre(req)}
            /\ invitations' = IF req.kind = "inviter"
                              THEN invitations \cup {NewInvitation(req)}
                              ELSE invitations
            /\ last' = [op |-> "equipe." \o req.kind \o ".insert", req |-> req, status |-> 201]
    /\ UNCHANGED <<clock, envSecret, agences, sessions, accesTemporaires,
                   superAdmins, resourceTables, issued>>

(* a delete without the test on the role of the member *)
SupprimerMembre_noOwnerGuard(cookies, id) ==
    LET g == OwnerGuard(cookies)
        membre == {u \in utilisateurs : u.id = id /\ u.agenceId = g.auth.agenceId[1]}
    IN IF ~g.next
       THEN Answer(EquipeAnswer("equipe.delete", cookies, g, id, g.status))
       ELSE IF membre = {}
       THEN Answer(EquipeAnswer("equipe.delete", cookies, g, id, 404))
       ELSE IF id = g.auth.user[1].id
       THEN Answer(EquipeAnswer("equipe.delete", cookies, g, id, 400))
       ELSE /\ utilisateurs' = {u \in utilisateurs : u.id # id}
            /\ last' = EquipeAnswer("equipe.delete", cookies, g, id, 200)
            /\ UNCHANGED <<clock, envSecret, teamTables, inflight, sessions,
                           accesTemporaires, superAdmins, resourceTables, issued>>

(* DELETE /api/equipe/:id *)
SupprimerMembre(cookies, id) ==
    LET g == OwnerGuard(cookies)
        membre == {u \in utilisateurs : u.id = id /\ u.agenceId = g.auth.agenceId[1]}
    IN IF ~g.next
       THEN Answer(EquipeAnswer("equipe.delete", cookies, g, id, g.status))
       ELSE IF membre = {}
       THEN Answer(EquipeAnswer("equipe.delete", cookies, g, id, 404))
       ELSE IF (CHOOSE u \in membre : TRUE).role = "owner"
       THEN Answer(EquipeAnswer("equipe.delete", cookies, g, id, 400))
       ELSE IF id = g.auth.user[1].id
       THEN Answer(EquipeAnswer("equipe.delete", cookies, g, id, 400))
       ELSE /\ utilisateurs' = {u \in utilisateurs : u.id # id}
            /\ last' = EquipeAnswer("equipe.delete", cookies, g, id, 200)
            /\ UNCHANGED <<clock, envSecret, teamTables, inflight, sessions,
                           accesTemporaires, superAdmins, resourceTables, issued>>

(* PATCH /api/equipe/:id/role *)
PatchRole(cookies, id, role) ==
    LET g == OwnerGuard(cookies)
        membre == {u \in utilisateurs : u.id = id /\ u.agenceId = g.auth.agenceId[1]}
    IN IF ~g.next
       THEN Answer(EquipeAnswer("equipe.role", cookies, g, id, g.status))
       ELSE IF role \notin {"owner", "member", "model"}
       THEN Answer(EquipeAnswer("equipe.role", cookies, g, id, 400))
       ELSE IF membre = {}
       THEN Answer(EquipeAnswer("equipe.role", cookies, g, id, 404))
       ELSE IF id = g.auth.user[1].id
       THEN Answer(EquipeAnswer("equipe.role", cookies, g, id, 400))
       ELSE /\ utilisateurs' = {IF u.id = id THEN [u EXCEPT !.role = role] ELSE u :
                                   u \in utilisateurs}
            /\ last' = EquipeAnswer("equipe.role", cookies, g, id, 200)
            /\ UNCHANGED <<clock, envSecret, teamTables, inflight, sessions,
                           accesTemporaires, superAdmins, resourceTables, issued>>

(***************************************************************************)
(* Initial rows.                                                           *)
(***************************************************************************)
Utilisateur(id, email, password, role, agenceId, emailVerifie) ==
    [id |-> id, email |-> email, motDePasseHash |-> hashPassword(password, id),
     role |-> role, agenceId |-> agenceId, emailVerifie |-> emailVerifie,
     actif |-> TRUE, dateCreation |-> 0,
     tokenVerification |-> IF emailVerifie THEN None ELSE Some("verif-" \o id)]

(* two verified owners of two agencies, and an owner who signed up but has *)
(* not verified the email yet                                              *)
InitUtilisateurs ==
    {Utilisateur("u1", "ana@x.com", "pw1", "owner", "a1", TRUE),
     Utilisateur("u2", "bob@y.com", "pw2", "owner", "a2", TRUE),
     Utilisateur("u3", "eve@z.com", "pw2", "owner", "a3", FALSE)}

Agence(id, nom) ==
    [id |-> id, nom |-> nom, plan |-> "free", statutAbonnement |-> "actif",
     idAbonnementStripe |-> None]

(* the agencies of the initial accounts *)
InitAgences == {Agence("a1", "Ana Agency"), Agence("a2", "Bob Agency"),
                Agence("a3", "Eve Agency")}

InitAdmins ==
    {[id |-> "adm1", email |-> "root@onlytrack.io",
      motDePasse |-> hashPassword("root-pw", "adm1"), actif |-> TRUE]}

(***************************************************************************)
(* SpecSession: login, logout and protected requests over time.            *)
(***************************************************************************)
Emails == {"ana@x.com", "bob@y.com", "eve@z.com", "nobody@x.com", "not-an-email"}

Passwords == {"pw1", "pw2"}

AuthOnly == {Cookies(t, None, None) : t \in OptTokens}

InitSession ==
    /\ clock = 0
    /\ envSecret = TRUE
    /\ utilisateurs = InitUtilisateurs
    /\ sessions = {}
    /\ accesTemporaires = {}
    /\ superAdmins = InitAdmins
    /\ transactions = {}
    /\ taches = {}
    /\ modeles = {}
    /\ agences = InitAgences
    /\ invitations = {}
    /\ inflight = {}
    /\ issued = {}
    /\ last = [op |-> "init"]

NextSession ==
    \/ Tick(DAY, MaxDays * DAY)
    \/ \E e \in Emails, p \in Passwords : Connexion(e, p)
    \/ \E c \in AuthOnly : Deconnexion(c)
    \/ \E c \in AuthOnly : Moi(c)
    \/ \E c \in AuthOnly : Optional(c)

SpecSession == InitSession /\ [][NextSession]_vars

(***************************************************************************)
(* Properties of login, logout and the session store.                      *)
(***************************************************************************)
IsAuthToken(t) == t.type = UNDEF /\ t.key # ForgedSecret

(* the auth tokens login issued whose Session row is gone: only logout     *)
(* deletes rows of the table                                               *)
LoggedOut ==
    {t \in issued : IsAuthToken(t) /\ \A s \in sessions : s.tokenHash # hashToken(t)}

(* C1: a request carrying a token whose Session row logout has deleted is  *)
(* answered 401, whatever other sessions the principal still holds.        *)
C1_RevokedTokenRejected ==
    (/\ last.op = "moi"
     /\ last.cookies.auth_token # None
     /\ last.cookies.auth_token[1] \in LoggedOut)
    => last.status = 401

UnknownEmail(email) ==
    IsEmail(email) /\ \A u \in utilisateurs : u.email # email

WrongPassword(email, password) ==
    \E u \in utilisateurs : u.email = email /\ u.motDePasseHash[3] # password

InvalidCredentials(email, password) ==
    UnknownEmail(email) \/ WrongPassword(email, password)

(* C5: a login with an unknown email or a wrong password creates no        *)
(* Session row, sets no cookie and is answered 401, and the response is    *)
(* the same whichever of the two it was.                                   *)
C5_InvalidCredentials ==
    [][(last'.op = "connexion" /\ InvalidCredentials(last'.email, last'.password))
       => /\ sessions' = sessions
          /\ issued' = issued
          /\ last'.setCookie = None
          /\ last'.res.status = 401
          /\ \A e \in Emails, p \in Passwords :
                InvalidCredentials(e, p) => connexion(e, p) = last'.res]_vars

C5_Witness ==
    /\ last.op = "connexion"
    /\ WrongPassword(last.email, last.password)
    /\ last.res.status = 401
    /\ sessions # {}
    /\ \E e \in Emails : UnknownEmail(e)

ValidLogin(email, password) ==
    \E u \in utilisateurs :
        /\ u.email = email
        /\ u.motDePasseHash[3] = password
        /\ u.emailVerifie
        /\ u.actif

(* C6: a login with valid credentials of a verified, active account sets   *)
(* the auth_token cookie and inserts exactly one Session row, holding the  *)
(* digest of the issued token, the principal's id and an expiration seven  *)
(* days after the login; the row has no column for the token itself.       *)
C6_LoginCreatesSession ==
    [][(last'.op = "connexion" /\ ValidLogin(last'.email, last'.password))
       => /\ last'.res.status = 200
          /\ last'.setCookie # None
          /\ \E row \in sessions' \ sessions :
                /\ sessions' = sessions \cup {row}
                /\ row.tokenHash = hashToken(last'.setCookie[1])
                /\ row.tokenHash[1] = "sha256"
                /\ \E u \in utilisateurs :
                      u.email = last'.email /\ row.utilisateurId = u.id
                /\ row.dateExpiration = clock + 7 * TicksPerDay
                /\ DOMAIN row = {"id", "utilisateurId", "tokenHash",
                                 "dateCreation", "dateExpiration"}]_vars

C6_Witness ==
    /\ last.op = "connexion"
    /\ ValidLogin(last.email, last.password)
    /\ Cardinality(sessions) = 2
    /\ \E s1, s2 \in sessions : s1.id # s2.id /\ s1.utilisateurId = s2.utilisateurId

(* steps 2-5 of authenticate succeed for the cookies *)
Steps2to5(cookies) ==
    /\ cookies.auth_token # None
    /\ verifyJWT(cookies.auth_token[1])
    /\ \E s \in sessions :
          s.utilisateurId = cookies.auth_token[1].userId /\ s.dateExpiration > clock
    /\ \E u \in utilisateurs : u.id = cookies.auth_token[1].userId /\ u.actif

(* C11: authenticateOptional attaches an identity exactly when an          *)
(* auth_token is present, its JWT verifies, the principal has a Session    *)
(* whose expiration is in the future and the principal exists and is       *)
(* active; it always proceeds and never answers an error.                  *)
C11_OptionalSameChecks ==
    last.op = "optional"
    => /\ last.auth.next
       /\ last.auth.status = 0
       /\ (last.auth.user # None) <=> Steps2to5(last.cookies)

(***************************************************************************)
(* SpecAdmin: the admin plane beside the tenant plane.  Ana logged in at   *)
(* tick 0, Bob's agency has a temporary access grant that was exchanged    *)
(* for a demo cookie at tick 0; the environment may or may not set         *)
(* JWT_SECRET.                                                             *)
(***************************************************************************)
AnaToken0 ==
    [type |-> UNDEF, userId |-> "u1", id |-> UNDEF, email |-> UNDEF,
     accesId |-> UNDEF, agenceId |-> "a1", role |-> "owner",
     iat |-> 0, exp |-> JWT_EXPIRATION, key |-> LibSecret]

AnaSession0 ==
    [id |-> "s1", utilisateurId |-> "u1", tokenHash |-> hashToken(AnaToken0),
     dateCreation |-> 0, dateExpiration |-> SESSION_EXPIRATION]

Acces(id, agenceId, token, dateExpiration, actif, creePar) ==
    [id |-> id, agenceId |-> agenceId, nom |-> "client", email |-> None,
     token |-> token, dateExpiration |-> dateExpiration, actif |-> actif,
     creePar |-> creePar]

DemoToken0 ==
    [type |-> "demo", userId |-> UNDEF, id |-> UNDEF, email |-> UNDEF,
     accesId |-> "g1", agenceId |-> "a2", role |-> UNDEF,
     iat |-> 0, exp |-> DEMO_JWT_EXPIRATION, key |-> MwSecret]

AdminEmails == {"root@onlytrack.io", "ROOT@onlytrack.io", "nobody@x.com"}

AdminPasswords == {"root-pw", "bad"}

AdminSlot == {Cookies(None, None, t) : t \in OptTokens}

TenantSlots == {Cookies(a, d, None) : a \in OptTokens, d \in OptTokens}

ActifBodies ==
    {[role |-> None, actif |-> Some(b), emailVerifie |-> None] : b \in BOOLEAN}

AdminBodies ==
    {[actif |-> a, motDePasse |-> None] : a \in {None, Some(FALSE), Some(TRUE)}}

InitAdmin ==
    /\ clock = 0
    /\ envSecret \in BOOLEAN
    /\ utilisateurs = InitUtilisateurs
    /\ sessions = {AnaSession0}
    /\ accesTemporaires = {Acces("g1", "a2", "raw-1", None, TRUE, "u2")}
    /\ superAdmins = InitAdmins
    /\ transactions = {}
    /\ taches = {}
    /\ modeles = {}
    /\ agences = InitAgences
    /\ invitations = {}
    /\ inflight = {}
    /\ issued = {AnaToken0, DemoToken0}
    /\ last = [op |-> "init"]

NextAdmin ==
    \/ Tick(DAY, MaxDays * DAY)
    \/ \E e \in AdminEmails, p \in AdminPasswords : AdminConnexion(e, p)
    \/ \E c \in AdminSlot : AdminCheck(c)
    \/ \E c \in AdminSlot, b \in ActifBodies : AdminPatchUtilisateur(c, "u1", b)
    \/ \E c \in AdminSlot : AdminMoi(c)
    \/ \E c \in AdminSlot, b \in AdminBodies : AdminPatchAdmin(c, "adm1", b)
    \/ \E c \in TenantSlots : Moi(c)

SpecAdmin == InitAdmin /\ [][NextAdmin]_vars

(* C3: whatever cookie it is presented in, an admin JWT never yields a     *)
(* tenant identity and a tenant (or demo) JWT never passes requireAdmin.   *)
C3_PlanesIndependent ==
    /\ (last.op = "admin.check" /\ last.cookies.admin_token # None
        /\ last.cookies.admin_token[1].type # "admin")
       => (last.status = 401 /\ ~last.adm.next)
    /\ (last.op = "moi" /\ last.cookies.auth_token # None
        /\ last.cookies.auth_token[1].type = "admin")
       => (last.auth.next => last.auth.user[1].isDemo)
    /\ (last.op = "moi" /\ last.cookies.demo_token # None
        /\ last.cookies.demo_token[1].type = "admin")
       => (last.auth.next => ~last.auth.user[1].isDemo)
    /\ (last.op = "moi" /\ last.auth.next)
       => \/ last.auth.user[1].isDemo /\ last.cookies.demo_token[1].type = "demo"
          \/ ~last.auth.user[1].isDemo /\ last.cookies.auth_token[1].type = UNDEF

(* an admin JWT signed with the shared secret, presented as auth_token *)
C3_Witness ==
    /\ last.op = "moi"
    /\ last.cookies.auth_token # None
    /\ last.cookies.auth_token[1].type = "admin"
    /\ verifyJWT(last.cookies.auth_token[1])
    /\ last.cookies.demo_token = None
    /\ last.status = 401
    /\ \E t \in issued : t.type = UNDEF /\ verifyJWT(t) /\ jwtVerify(t, MwSecret)

(* the admin_token cookie carries a token the login of an admin issued,    *)
(* still valid, and the account it names is deactivated now                *)
DeactivatedAdminToken(cookies) ==
    /\ cookies.admin_token # None
    /\ cookies.admin_token[1] \in issued
    /\ cookies.admin_token[1].type = "admin"
    /\ jwtVerify(cookies.admin_token[1], MwSecret)
    /\ \E a \in superAdmins : a.id = cookies.admin_token[1].id /\ ~a.actif

(* C13: once an admin account is deactivated, every 'who am I' request and *)
(* every request behind requireAdmin that carries a token issued before is *)
(* answered 401, and 'who am I' clears the admin_token cookie.             *)
C13_AdminDeactivation ==
    [][(last'.op \in {"admin.moi", "admin.check", "admin.patchAdmin",
                      "admin.patchUtilisateur"}
        /\ DeactivatedAdminToken(last'.cookies))
       => /\ last'.status = 401
          /\ last'.op = "admin.moi" => "admin_token" \in last'.cleared
          /\ UNCHANGED <<authTables, resourceTables, teamTables>>]_vars

C13_Witness ==
    /\ last.op = "admin.moi"
    /\ DeactivatedAdminToken(last.cookies)
    /\ last.status = 401
    /\ last.cookies.admin_token[1].iat < clock

(* C4: no request is authenticated as a principal whose actif flag is      *)
(* false: a request carrying that principal's token is answered 401, even  *)
(* with a valid JWT and an unexpired Session.                              *)
C4_InactiveRejected ==
    /\ (last.op = "moi" /\ last.auth.next /\ ~last.auth.user[1].isDemo)
       => \E u \in utilisateurs : u.id = last.auth.user[1].id /\ u.actif
    /\ (/\ last.op = "moi"
        /\ last.cookies.demo_token = None
        /\ last.cookies.auth_token # None
        /\ \E u \in utilisateurs :
              u.id = last.cookies.auth_token[1].userId /\ ~u.actif)
       => (last.status = 401 /\ ~last.auth.next)

C4_Witness ==
    /\ last.op = "moi"
    /\ last.cookies.demo_token = None
    /\ last.cookies.auth_token = Some(AnaToken0)
    /\ verifyJWT(AnaToken0)
    /\ \E s \in sessions : s.utilisateurId = "u1" /\ s.dateExpiration > clock
    /\ \E u \in utilisateurs : u.id = "u1" /\ ~u.actif
    /\ last.status = 401

(***************************************************************************)
(* SpecDemo: temporary access grants, their validation and exchange, and   *)
(* the demo path of authenticate, tick by tick.  Ana is logged in.         *)
(***************************************************************************)
RawTokens == {"raw-" \o ToString(n) : n \in 1..MaxGrants} \cup {"raw-unknown"}

GrantIds == {"g" \o ToString(n) : n \in 1..MaxGrants}

AuthSlot == {Cookies(t, None, None) : t \in {None, Some(AnaToken0)}}

DemoSlots ==
    {Cookies(a, d, None) : a \in {None, Some(AnaToken0)},
                           d \in {Some(t) : t \in Presentable \ {AnaToken0}}}

InitDemo ==
    /\ clock = 0
    /\ envSecret = TRUE
    /\ utilisateurs = InitUtilisateurs
    /\ sessions = {AnaSession0}
    /\ accesTemporaires = {}
    /\ superAdmins = InitAdmins
    /\ transactions = {}
    /\ taches = {}
    /\ modeles = {}
    /\ agences = InitAgences
    /\ invitations = {}
    /\ inflight = {}
    /\ issued = {AnaToken0}
    /\ last = [op |-> "init"]

NextDemo ==
    \/ Tick(1, MaxDemoClock)
    \/ \E c \in AuthSlot, nom \in {"client", ""}, j \in {None, Some(0), Some(1)} :
          CreerAcces(c, nom, j)
    \/ \E c \in AuthSlot, id \in GrantIds : RevoquerAcces(c, id)
    \/ \E t \in RawTokens : Valider(t)
    \/ \E t \in RawTokens : DemoValidate(t)
    \/ \E t \in RawTokens : DemoAccess(t)
    \/ \E c \in AuthSlot \cup DemoSlots : Moi(c)

SpecDemo == InitDemo /\ [][NextDemo]_vars

(***************************************************************************)
(* Claims checked under SpecDemo.                                          *)
(***************************************************************************)
ValidationOps == {"demo.validate", "acces.valider", "demo.access"}

AuthenticatedOps == {"moi", "acces.creer", "acces.revoquer"}

GrantOfToken(token) == {a \in accesTemporaires : a.token = token}

PastExpired(a) == a.dateExpiration # None /\ a.dateExpiration[1] < clock

(* the demo cookie verifies as a demo token *)
DemoCookieVerifies(cookies) ==
    /\ cookies.demo_token # None
    /\ cookies.demo_token[1].key = MwSecret
    /\ clock < cookies.demo_token[1].exp
    /\ cookies.demo_token[1].type = "demo"

GrantOfCookie(cookies) ==
    {a \in accesTemporaires : a.id = cookies.demo_token[1].accesId}

(* C7: a grant whose actif flag is false is rejected by the public         *)
(* validation, by the tenant-side validation and by the demo exchange, and *)
(* the exchange sets no demo cookie.                                       *)
C7_InactiveGrantRejected ==
    (last.op \in ValidationOps /\ \E a \in GrantOfToken(last.token) : ~a.actif)
    => (last.status = 403 /\ ~last.valid /\ last.setCookie = None)

C7_Witness ==
    /\ last.op = "demo.access"
    /\ \E a \in GrantOfToken(last.token) : ~a.actif /\ a.dateExpiration = None
    /\ last.status = 403

(* C8: an active grant whose expiration is in the past is rejected by the  *)
(* validations and the exchange and does not open the demo path of         *)
(* authenticate; an active grant without expiration is accepted by all of  *)
(* them at any time.                                                       *)
C8_ExpiredGrantRejected ==
    /\ (last.op \in ValidationOps
        /\ \E a \in GrantOfToken(last.token) : a.actif /\ PastExpired(a))
       => (last.status = 403 /\ ~last.valid /\ last.setCookie = None)
    /\ (last.op = "moi" /\ DemoCookieVerifies(last.cookies)
        /\ \E a \in GrantOfCookie(last.cookies) : a.actif /\ PastExpired(a))
       => (last.auth.user = None \/ ~last.auth.user[1].isDemo)
    /\ (last.op \in ValidationOps
        /\ \E a \in GrantOfToken(last.token) : a.actif /\ a.dateExpiration = None)
       => (last.status = 200 /\ last.valid)
    /\ (last.op = "moi" /\ DemoCookieVerifies(last.cookies)
        /\ \E a \in GrantOfCookie(last.cookies) : a.actif /\ a.dateExpiration = None)
       => (last.auth.next /\ last.auth.user[1].isDemo)

C8_Witness ==
    /\ last.op = "moi"
    /\ DemoCookieVerifies(last.cookies)
    /\ \E a \in GrantOfCookie(last.cookies) : a.actif /\ PastExpired(a)
    /\ last.cookies.auth_token = None
    /\ last.status = 401

(* C9: when authenticate rejects a request, req.user and req.agenceId are  *)
(* both unset, the answer is its 401 and the handler changes nothing; when *)
(* the handler runs, both are set and req.agenceId is req.user.agenceId.   *)
C9_ContextAllOrNothing ==
    [][last'.op \in AuthenticatedOps
       => /\ ~last'.auth.next
             => /\ last'.auth.user = None
                /\ last'.auth.agenceId = None
                /\ last'.status = 401
                /\ UNCHANGED <<authTables, resourceTables, teamTables, issued>>
          /\ last'.auth.next
             => /\ last'.auth.user # None
                /\ last'.auth.agenceId = Some(last'.auth.user[1].agenceId)]_vars

C9_Witness ==
    /\ last.op = "acces.creer"
    /\ last.auth.next
    /\ last.status = 201
    /\ last.auth.agenceId = Some("a1")

DemoGrantValide(cookies) ==
    {a \in GrantOfCookie(cookies) :
        a.actif /\ (a.dateExpiration = None \/ a.dateExpiration[1] > clock)}

Outcome(auth) == <<auth.next, auth.status, auth.error, auth.user, auth.agenceId>>

(* C14: a token of type demo is handed out only by a successful exchange   *)
(* that presents the raw token of a grant active and unexpired at that     *)
(* moment, and authenticate resolves a request to the ephemeral principal  *)
(* of a grant only from such a token of that grant.                        *)
C14_ExchangeOnlySource ==
    [][/\ \A t \in issued' \ issued :
             t.type = "demo"
             => /\ last'.op = "demo.access"
                /\ last'.status = 200
                /\ last'.setCookie = Some(t)
                /\ \E g \in GrantOfToken(last'.token) :
                      g.id = t.accesId /\ g.actif /\ ~PastExpired(g)
       /\ (last'.op \in AuthenticatedOps /\ last'.auth.next
           /\ last'.auth.user[1].isDemo)
          => /\ last'.cookies.demo_token # None
             /\ last'.cookies.demo_token[1] \in issued
             /\ last'.cookies.demo_token[1].type = "demo"
             /\ last'.auth.user[1].id = "demo-" \o last'.cookies.demo_token[1].accesId]_vars

C14_Witness ==
    /\ last.op = "moi"
    /\ last.auth.next
    /\ last.auth.user[1].isDemo
    /\ last.cookies.demo_token[1].iat < clock
    /\ last.cookies.auth_token = None

(* C10: a demo cookie that verifies with type demo and names an existing,  *)
(* active, unexpired grant makes the request proceed as the ephemeral      *)
(* member demo-<grant id> of the grant's tenant, without a read of the     *)
(* Session store and whatever the auth_token cookie; any other demo cookie *)
(* leaves the outcome that of the request without it.                      *)
C10_DemoCookieOutcome ==
    last.op = "moi"
    => IF DemoCookieVerifies(last.cookies) /\ DemoGrantValide(last.cookies) # {}
       THEN \E a \in DemoGrantValide(last.cookies) :
               /\ last.auth.next
               /\ last.auth.user[1].id = "demo-" \o a.id
               /\ last.auth.user[1].role = "member"
               /\ last.auth.user[1].agenceId = a.agenceId
               /\ last.auth.agenceId = Some(a.agenceId)
               /\ \A i \in 1..Len(last.auth.reads) : last.auth.reads[i] # "sessions"
               /\ \A t \in OptTokens :
                     authenticate(Cookies(t, last.cookies.demo_token, None)) = last.auth
       ELSE Outcome(last.auth) =
               Outcome(authenticate(Cookies(last.cookies.auth_token, None,
                                            last.cookies.admin_token)))

C10_Witness ==
    /\ last.op = "moi"
    /\ DemoCookieVerifies(last.cookies)
    /\ DemoGrantValide(last.cookies) # {}
    /\ last.cookies.auth_token = Some(AnaToken0)
    /\ authenticate(Cookies(last.cookies.auth_token, None, None)).next
    /\ last.auth.user[1].isDemo

(***************************************************************************)
(* SpecTenant: the resource routers, with Ana (tenant a1) logged in and one *)
(* row of tenant a1 and one of tenant a2 in every table.                   *)
(***************************************************************************)
Transaction(id, agenceId, modeleId, payee) ==
    [id |-> id, agenceId |-> agenceId, modeleId |-> modeleId, montant |-> 10,
     payee |-> payee, date |-> 0]

Tache(id, agenceId) ==
    [id |-> id, agenceId |-> agenceId, terminee |-> FALSE, dateCreation |-> 0]

Modele(id, agenceId) == [id |-> id, agenceId |-> agenceId]

Principals == {Cookies(t, None, None) : t \in {None, Some(AnaToken0)}}

TransactionIds == {"t" \o ToString(n) : n \in 1..MaxRows}

TacheIds == {"k" \o ToString(n) : n \in 1..MaxRows}

ModeleIds == {"m1", "m2", "m9"}

NoQuery == [modelId |-> None, payee |-> None, dateDebut |-> None, dateFin |-> None]

Queries ==
    {NoQuery, [NoQuery EXCEPT !.modelId = Some("m1")],
     [NoQuery EXCEPT !.payee = Some("true")], [NoQuery EXCEPT !.dateDebut = Some(0)],
     [NoQuery EXCEPT !.dateFin = Some(0)]}

PostBodies ==
    {[modeleId |-> None, montant |-> m, payee |-> None] : m \in {None, Some(10)}}

Updates ==
    {[agenceId |-> None, payee |-> Some(TRUE)],
     [agenceId |-> Some("a2"), payee |-> None]}

InitTenant ==
    /\ clock = 0
    /\ envSecret = TRUE
    /\ utilisateurs = InitUtilisateurs
    /\ sessions = {AnaSession0}
    /\ accesTemporaires = {}
    /\ superAdmins = InitAdmins
    /\ transactions = {Transaction("t1", "a1", Some("m1"), FALSE),
                       Transaction("t2", "a2", Some("m2"), TRUE)}
    /\ taches = {Tache("k1", "a1"), Tache("k2", "a2")}
    /\ modeles = {Modele("m1", "a1"), Modele("m2", "a2")}
    /\ agences = InitAgences
    /\ invitations = {}
    /\ inflight = {}
    /\ issued = {AnaToken0}
    /\ last = [op |-> "init"]

NextTenant ==
    \/ \E c \in Principals, q \in Queries : TransactionsList(c, q)
    \/ \E c \in Principals, b \in PostBodies : TransactionsPost(c, b)
    \/ \E c \in Principals, id \in TransactionIds, u \in Updates :
          TransactionsPatch(c, id, u)
    \/ \E c \in Principals, id \in TransactionIds : TransactionsDelete(c, id)
    \/ \E c \in Principals : ModelsList(c)
    \/ \E c \in Principals, id \in ModeleIds : ModelsGet(c, id)
    \/ \E c \in Principals : TodosList(c)
    \/ \E c \in Principals, texte \in {"", "call"} : TodosPost(c, texte)
    \/ \E c \in Principals, id \in TacheIds, t \in {None, Some(TRUE)} :
          TodosPatch(c, id, t)
    \/ \E c \in Principals, id \in TacheIds : TodosDelete(c, id)

SpecTenant == InitTenant /\ [][NextTenant]_vars

(***************************************************************************)
(* Claims checked under SpecTenant.                                        *)
(***************************************************************************)
ByIdOps ==
    {"transactions.patch", "transactions.delete", "models.get", "todos.patch",
     "todos.delete"}

ListOps == {"transactions.list", "models.list", "todos.list"}

TableOf(op) ==
    IF op \in {"transactions.patch", "transactions.delete", "transactions.list"}
    THEN transactions
    ELSE IF op \in {"models.get", "models.list"} THEN modeles ELSE taches

(* the request that has just been answered named a row of another tenant *)
NamesForeignRow ==
    /\ last'.op \in ByIdOps
    /\ last'.auth.next
    /\ \E r \in TableOf(last'.op) :
          r.id = last'.id /\ r.agenceId # last'.auth.agenceId[1]

ById404 ==
    (NamesForeignRow /\ last'.status # 400)
    => (last'.status = 404 /\ UNCHANGED resourceTables)

ListsOwnRows ==
    (last'.op \in ListOps /\ last'.auth.next)
    => \A r \in last'.rows : r.agenceId = last'.auth.agenceId[1]

(* C2: a read by id, an update or a delete by a principal of tenant A that *)
(* names a row whose tenant is not A is answered 404 (400 when the body is *)
(* malformed) and changes no row, and every row of a list a principal of   *)
(* tenant A retrieves has tenant A.                                        *)
C2_TenantIsolation == [][ById404 /\ ListsOwnRows]_vars

(***************************************************************************)
(* SpecEquipe: the team router.  Agency a1 has its owner Ana and a member  *)
(* Mia, both logged in at tick 0.                                          *)
(***************************************************************************)
Mia == Utilisateur("u4", "mia@x.com", "pw1", "member", "a1", TRUE)

MiaToken0 ==
    [type |-> UNDEF, userId |-> "u4", id |-> UNDEF, email |-> UNDEF,
     accesId |-> UNDEF, agenceId |-> "a1", role |-> "member",
     iat |-> 0, exp |-> JWT_EXPIRATION, key |-> LibSecret]

MiaSession0 ==
    [id |-> "s2", utilisateurId |-> "u4", tokenHash |-> hashToken(MiaToken0),
     dateCreation |-> 0, dateExpiration |-> SESSION_EXPIRATION]

DemoTokenA1 ==
    [type |-> "demo", userId |-> UNDEF, id |-> UNDEF, email |-> UNDEF,
     accesId |-> "g1", agenceId |-> "a1", role |-> UNDEF,
     iat |-> 0, exp |-> DEMO_JWT_EXPIRATION, key |-> MwSecret]

Team ==
    {Cookies(None, None, None), Cookies(Some(AnaToken0), None, None),
     Cookies(Some(MiaToken0), None, None)}

MembreBodies ==
    {[email |-> "new@x.com", role |-> "member", motDePasse |-> "pw3"],
     [email |-> "new@x.com", role |-> "owner", motDePasse |-> "pw3"],
     [email |-> "mia@x.com", role |-> "model", motDePasse |-> "pw3"]}

MembreIds == {"u2", "u4", "u5"}

InitEquipe ==
    /\ clock = 0
    /\ envSecret = TRUE
    /\ utilisateurs = InitUtilisateurs \cup {Mia}
    /\ sessions = {AnaSession0, MiaSession0}
    /\ accesTemporaires = {}
    /\ superAdmins = InitAdmins
    /\ transactions = {}
    /\ taches = {}
    /\ modeles = {}
    /\ agences = InitAgences
    /\ invitations = {}
    /\ inflight = {}
    /\ issued = {AnaToken0, MiaToken0}
    /\ last = [op |-> "init"]

NextEquipe ==
    \/ \E c \in Team : EquipeList(c)
    \/ \E c \in Team, b \in MembreBodies : InviterCheck(c, b)
    \/ \E c \in Team, b \in MembreBodies : CreerCheck(c, b)
    \/ \E req \in inflight : MembreInsert(req)
    \/ \E c \in Team, id \in MembreIds : SupprimerMembre(c, id)
    \/ \E c \in Team, id \in MembreIds, r \in {"owner", "admin"} :
          PatchRole(c, id, r)

SpecEquipe == InitEquipe /\ [][NextEquipe]_vars

(***************************************************************************)
(* Properties of the team router.                                          *)
(***************************************************************************)
Roles == {"owner", "member", "model"}

OwnerOps ==
    {"equipe.inviter", "equipe.inviter.check", "equipe.creer", "equipe.creer.check",
     "equipe.delete", "equipe.role"}

NothingWritten ==
    UNCHANGED <<authTables, resourceTables, teamTables, inflight, issued>>

(* requireRole as a function of the permitted set and the attached role *)
RequireRoleTable ==
    \A R \in SUBSET Roles :
        /\ requireRole(R, None).status = 401
        /\ ~requireRole(R, None).next
        /\ \A r \in Roles :
              LET g == requireRole(R, Some([role |-> r]))
              IN IF r \in R
                 THEN g.next
                 ELSE /\ ~g.next
                      /\ g.status = 403
                      /\ g.requiredRoles = Some(R)
                      /\ g.yourRole = Some(r)

(* C12: behind requireRole a request with no identity is answered 401; one *)
(* whose role is not permitted is answered 403 with the permitted roles    *)
(* and its own role in the body, and the handler writes nothing; one whose *)
(* role is permitted reaches the handler.                                  *)
C12_RequireRole ==
    [][/\ RequireRoleTable
       /\ last'.op \in OwnerOps
          => /\ last'.auth.user = None => (last'.status = 401 /\ NothingWritten)
             /\ (last'.auth.user # None /\ last'.auth.user[1].role # "owner")
                => /\ last'.status = 403
                   /\ last'.guard.requiredRoles = Some({"owner"})
                   /\ last'.guard.yourRole = Some(last'.auth.user[1].role)
                   /\ NothingWritten
             /\ (last'.auth.user # None /\ last'.auth.user[1].role = "owner")
                => (last'.guard.next /\ last'.status \notin {401, 403})]_vars

C12_Witness ==
    /\ last.op = "equipe.inviter"
    /\ last.auth.user # None
    /\ last.auth.user[1].role = "member"
    /\ last.status = 403
    /\ \E u \in utilisateurs : u.id = "u5"

(***************************************************************************)
(* Sign-up, email verification and the team routes that create principals  *)
(***************************************************************************)
InscriptionBodies ==
    {[email |-> "new@x.com", password |-> "Passw0rd!",
      confirmPassword |-> "Passw0rd!", nomAgence |-> "New"],
     [email |-> "new@x.com", password |-> "password1",
      confirmPassword |-> "password1", nomAgence |-> "New"],
     [email |-> "new@x.com", password |-> "Passw0rd!",
      confirmPassword |-> "password1", nomAgence |-> "New"],
     [email |-> "ana@x.com", password |-> "Passw0rd!",
      confirmPassword |-> "Passw0rd!", nomAgence |-> "New"]}

Owner == {Cookies(Some(AnaToken0), None, None)}

NouveauMembre == {[email |-> "new@x.com", role |-> "member", motDePasse |-> "pw3"]}

(* a member body with the email of the owner of another agency *)
MembreAilleurs == {[email |-> "bob@y.com", role |-> "member", motDePasse |-> "pw3"]}

VerificationTokens == {"verif-u4", "verif-u5", "verif-u9"}

InitSignup ==
    /\ clock = 0
    /\ envSecret = TRUE
    /\ utilisateurs = InitUtilisateurs
    /\ sessions = {AnaSession0}
    /\ accesTemporaires = {}
    /\ superAdmins = InitAdmins
    /\ transactions = {}
    /\ taches = {}
    /\ modeles = {}
    /\ agences = InitAgences
    /\ invitations = {}
    /\ inflight = {}
    /\ issued = {AnaToken0}
    /\ last = [op |-> "init"]

NextSignup ==
    \/ \E b \in InscriptionBodies : InscriptionDebut(b)
    \/ \E req \in inflight : InscriptionFin(req)
    \/ \E req \in inflight : InscriptionCrash(req)
    \/ \E t \in VerificationTokens : VerifierEmail(t)
    \/ \E p \in {"Passw0rd!", "pw1"} : Connexion("new@x.com", p)
    \/ \E c \in Owner, b \in NouveauMembre \cup MembreAilleurs : InviterCheck(c, b)
    \/ \E c \in Owner, b \in NouveauMembre \cup MembreAilleurs : CreerCheck(c, b)
    \/ \E req \in inflight : MembreInsert(req)
    \/ Tick(DAY, 2 * DAY)

SpecSignup == InitSignup /\ [][NextSignup]_vars

(* the principal a login with these credentials is about *)
Unverified(email, password) ==
    \E u \in utilisateurs :
        /\ u.email = email
        /\ verifyPassword(password, u.motDePasseHash)
        /\ ~u.emailVerifie

(* C15: a valid sign-up creates one Tenant with plan "free" and one        *)
(* Principal of that Tenant with role owner, emailVerifie false, actif     *)
(* true and a verification token; until the email is verified, a login     *)
(* with the correct password is answered 403 with needsEmailVerification   *)
(* true, creates no Session and sets no cookie.                            *)
C15_SignupThenUnverifiedLogin ==
    [][ /\ last'.op = "inscription.agence" =>
            /\ \E a \in agences' \ agences :
                  /\ agences' = agences \cup {a}
                  /\ a.plan = "free"
                  /\ \E req \in inflight' \ inflight : req.agenceId = a.id
            /\ utilisateurs' = utilisateurs
        /\ (last'.op = "inscription.fin" /\ last'.status = 201) =>
            /\ agences' = agences
            /\ \E u \in utilisateurs' \ utilisateurs :
                  /\ utilisateurs' = utilisateurs \cup {u}
                  /\ u.email = last'.req.email
                  /\ u.agenceId = last'.req.agenceId
                  /\ \E a \in agences : a.id = u.agenceId /\ a.plan = "free"
                  /\ \A v \in utilisateurs : v.agenceId # u.agenceId
                  /\ u.role = "owner"
                  /\ ~u.emailVerifie
                  /\ u.actif
                  /\ u.tokenVerification # None
        /\ (last'.op = "connexion" /\ Unverified(last'.email, last'.password)) =>
            /\ last'.res.status = 403
            /\ last'.res.needsEmailVerification
            /\ last'.setCookie = None
            /\ sessions' = sessions
            /\ issued' = issued
      ]_vars

C15_Witness ==
    /\ last.op = "connexion"
    /\ last.password = "Passw0rd!"
    /\ last.res.status = 403
    /\ \E u \in utilisateurs :
          /\ u.email = last.email
          /\ u.role = "owner"
          /\ u.agenceId = "a4"
          /\ ~u.emailVerifie

(* C16: whatever the interleaving of sign-up, invite and create requests,  *)
(* two concurrent requests for one email both past the existing-email      *)
(* check included, no two Principals share an email.                       *)
C16_EmailUnique ==
    \A u \in utilisateurs, v \in utilisateurs : u.email = v.email => u = v

C16_Witness ==
    /\ last.op \in {"inscription.fin", "equipe.creer.insert", "equipe.inviter.insert"}
    /\ last.status = 500
    /\ \E u \in utilisateurs : u.email = last.req.email

(* a Tenant no Principal belongs to and no running sign-up is about to own *)
Orphan(a, users, running) ==
    /\ \A u \in users : u.agenceId # a.id
    /\ \A req \in running : req.kind = "inscription" => req.agenceId # a.id

(* C17: sign-up is not transactional: when the owner insert fails or the   *)
(* server stops between the two writes the Tenant row stays without an     *)
(* owner, and no later step removes it or gives it one.                    *)
C17_OrphanTenant ==
    [][ /\ ((last'.op = "inscription.fin" /\ last'.status = 500)
              \/ last'.op = "inscription.crash") =>
            \E a \in agences' :
                /\ a.id = last'.req.agenceId
                /\ Orphan(a, utilisateurs', inflight')
        /\ \A a \in agences :
              Orphan(a, utilisateurs, inflight) =>
                  a \in agences' /\ Orphan(a, utilisateurs', inflight')
      ]_vars

C17_Witness ==
    /\ last.op = "inscription.fin"
    /\ last.status = 500
    /\ \E a \in agences :
          a.id = last.req.agenceId /\ Orphan(a, utilisateurs, inflight)
    /\ \E u \in utilisateurs :
          /\ u.email = last.req.email
          /\ u.role = "owner"
          /\ u.agenceId \notin {"a1", "a2", "a3", last.req.agenceId}

(***************************************************************************)
(* The writes open to a member and to a demo principal                     *)
(***************************************************************************)
Callers ==
    {Cookies(Some(AnaToken0), None, None), Cookies(Some(MiaToken0), None, None)}
        \cup {Cookies(None, Some(t), None) : t \in {i \in issued : i.type = "demo"}}

InitGrants ==
    /\ clock = 0
    /\ envSecret = TRUE
    /\ utilisateurs = InitUtilisateurs \cup {Mia}
    /\ sessions = {AnaSession0, MiaSession0}
    /\ accesTemporaires = {}
    /\ superAdmins = InitAdmins
    /\ transactions = {}
    /\ taches = {}
    /\ modeles = {}
    /\ agences = InitAgences
    /\ invitations = {}
    /\ inflight = {}
    /\ issued = {AnaToken0, MiaToken0}
    /\ last = [op |-> "init"]

NextGrants ==
    \/ \E c \in Callers, nom \in {"client", ""} : CreerAcces(c, nom, None)
    \/ \E c \in Callers, id \in GrantIds : RevoquerAcces(c, id)
    \/ \E t \in RawTokens : DemoAccess(t)
    \/ \E c \in Callers : TodosPost(c, "call")
    \/ \E c \in Callers :
          TransactionsPost(c, [modeleId |-> None, montant |-> Some(10), payee |-> None])
    \/ \E c \in Callers, b \in NouveauMembre : CreerCheck(c, b)
    \/ \E req \in inflight : MembreInsert(req)
    \/ \E c \in Callers : SupprimerMembre(c, "u4")
    \/ \E c \in Callers : Deconnexion(c)

SpecGrants == InitGrants /\ [][NextGrants]_vars

(* the request just answered was authenticated as a demo principal *)
ByDemo(l) ==
    /\ "auth" \in DOMAIN l
    /\ l.auth.next
    /\ l.auth.user[1].isDemo

(* C18: a demo principal is read-only: no request authenticated through    *)
(* the demo path creates, updates or deletes a stored row (resources,      *)
(* team members, temporary-access grants, sessions).                       *)
C18_DemoReadOnly ==
    [][ ByDemo(last') => UNCHANGED <<authTables, resourceTables, teamTables>> ]_vars

(* C19: a create or revoke request on /api/acces-temporaires succeeds only *)
(* for a principal with role owner; for a member, a model or a demo        *)
(* principal it is refused and the grant table is unchanged.               *)
C19_GrantsOwnerOnly ==
    [][ (last'.op \in {"acces.creer", "acces.revoquer"} /\ last'.auth.next) =>
            /\ last'.status \in {200, 201} =>
                  /\ last'.auth.user[1].role = "owner"
                  /\ ~last'.auth.user[1].isDemo
            /\ (last'.auth.user[1].role \in {"member", "model"}
                  \/ last'.auth.user[1].isDemo) =>
                  /\ last'.status \notin {200, 201}
                  /\ accesTemporaires' = accesTemporaires
      ]_vars

(* the Session rows a logout with these cookies is about *)
SessionsOfToken(cookies) ==
    IF cookies.auth_token = None THEN {}
    ELSE {s \in sessions : s.tokenHash = hashToken(cookies.auth_token[1])}

(* C20: logout removes exactly the Session rows whose tokenHash is         *)
(* hashToken of the presented auth_token and leaves every other Session    *)
(* row as it was: the other Sessions of the principal and those of other   *)
(* principals still exist afterwards.                                      *)
C20_LogoutFrame ==
    [][ last'.op = "deconnexion" =>
            IF last'.status = 200
            THEN sessions' = sessions \ SessionsOfToken(last'.cookies)
            ELSE sessions' = sessions
      ]_vars

C20_Witness ==
    /\ last.op = "deconnexion"
    /\ last.status = 200
    /\ last.cookies.auth_token # None
    /\ last.cookies.auth_token[1] \in issued
    /\ SessionsOfToken(last.cookies) = {}
    /\ \E s \in sessions : s.utilisateurId = last.auth.user[1].id

(***************************************************************************)
(* Generated passwords                                                     *)
(***************************************************************************)
(* the values randomInt(0, n) returns in the model: the first and the last *)
DrawIndices(n) == {0, n - 1}

(* the values of randomInt(0, i + 1) along the shuffle: always k (or i     *)
(* when k is out of range), and always i - k (or 0)                        *)
ShuffleDraws ==
    {[i \in 1..11 |-> IF k <= i THEN k ELSE i] : k \in 0..MaxShuffle}
        \cup {[i \in 1..11 |-> IF k <= i THEN i - k ELSE 0] : k \in 0..MaxShuffle}

Draws ==
    [upper : [1..3 -> DrawIndices(Len(UpperCase))],
     numbers : [1..3 -> DrawIndices(Len(Numbers))],
     special : [1..2 -> DrawIndices(Len(Special))],
     lower : [1..4 -> DrawIndices(Len(LowerCase))],
     shuffle : ShuffleDraws]

InitPassword ==
    /\ clock = 0
    /\ envSecret = TRUE
    /\ utilisateurs = InitUtilisateurs
    /\ sessions = {}
    /\ accesTemporaires = {}
    /\ superAdmins = InitAdmins
    /\ transactions = {}
    /\ taches = {}
    /\ modeles = {}
    /\ agences = InitAgences
    /\ invitations = {}
    /\ inflight = {}
    /\ issued = {}
    /\ \E d \in Draws : last = [op |-> "randomInt", draws |-> d]

NextPassword == GenerateSecurePassword

SpecPassword == InitPassword /\ [][NextPassword]_vars

(* C21: every password generateSecurePassword returns is accepted by       *)
(* validatePassword: it has length 12 and holds an uppercase letter, a     *)
(* digit and a non-alphanumeric symbol, whatever the draws and the shuffle.*)
C21_GeneratedPasswordValid ==
    last.op = "generateSecurePassword" =>
        /\ validatePassword(last.password)
        /\ Chars(last.password).length = 12
        /\ Chars(last.password).upper
        /\ Chars(last.password).digit
        /\ Chars(last.password).special

C21_Witness ==
    /\ last.op = "generateSecurePassword"
    /\ CharAt(last.password, 0) \notin CharsOf(UpperCase)
    /\ CharAt(last.password, 1) \in CharsOf(UpperCase)

(* the steps that take an account-creating request past its              *)
(* existing-email test                                                     *)
PastEmailCheck == {"inscription.agence", "equipe.inviter.check", "equipe.creer.check"}

(* C22: a duplicate email is a conflict detected before any write: an      *)
(* account-creating request (sign-up, invite member, create member) whose  *)
(* email is held by a Principal of any tenant is answered 400 by the       *)
(* existing-email test and writes no Tenant, Principal or Invitation row.  *)
C22_DuplicateEmailRefused ==
    [][ last'.op \in PastEmailCheck =>
            \A req \in inflight' \ inflight :
                \A u \in utilisateurs : u.email # req.email
      ]_vars

(* the Session rows of the principal a token names that expire strictly   *)
(* after now                                                               *)
LiveSessions(token) ==
    {s \in sessions : s.utilisateurId = token.userId /\ s.dateExpiration > clock}

(* C23: JWT validity and Session validity are independent and both         *)
(* required: authenticate accepts an auth_token only if the JWT verifies   *)
(* and is unexpired and the principal holds a Session expiring strictly    *)
(* later than now; with a valid JWT and every Session of the principal     *)
(* expired or absent the request is rejected with "session expired".       *)
C23_JwtAndSession ==
    (last.op = "moi" /\ last.cookies.auth_token # None) =>
        /\ last.auth.next =>
              /\ verifyJWT(last.cookies.auth_token[1])
              /\ LiveSessions(last.cookies.auth_token[1]) # {}
        /\ (verifyJWT(last.cookies.auth_token[1])
              /\ LiveSessions(last.cookies.auth_token[1]) = {}) =>
              /\ ~last.auth.next
              /\ last.status = 401
              /\ last.auth.error = "Session expiree"
        /\ (~verifyJWT(last.cookies.auth_token[1])
              /\ LiveSessions(last.cookies.auth_token[1]) # {}) =>
              /\ ~last.auth.next
              /\ last.status = 401

(* a token still valid as a JWT is refused because the Session is gone *)
C23_Witness ==
    /\ last.op = "moi"
    /\ last.cookies.auth_token # None
    /\ last.cookies.auth_token[1] \in issued
    /\ verifyJWT(last.cookies.auth_token[1])
    /\ LiveSessions(last.cookies.auth_token[1]) = {}
    /\ last.auth.error = "Session expiree"

(* the rows DELETE /api/equipe/:id may remove for the caller of the       *)
(* request l: the named principal when it is of the caller's tenant, not   *)
(* an owner and not the caller                                             *)
Removable(l) ==
    IF l.auth.next /\ l.guard.next
    THEN {u \in utilisateurs :
             /\ u.id = l.id
             /\ u.agenceId = l.auth.agenceId[1]
             /\ u.role # "owner"
             /\ u.id # l.auth.user[1].id}
    ELSE {}

AdminCallers ==
    {Cookies(None, None, Some(t)) : t \in {i \in issued : i.type = "admin"}}
        \cup {Cookies(None, None, None)}

DemoOnly == {Cookies(None, Some(t), None) : t \in {i \in issued : i.type = "demo"}}

NextRevoke ==
    \/ Tick(1, MaxDemoClock)
    \/ AdminConnexion("root@onlytrack.io", "root-pw")
    \/ \E c \in Owner : CreerAcces(c, "client", None)
    \/ \E c \in AdminCallers :
          AdminCreerAcces(c, [agenceId |-> "a1", nom |-> "press", dureeJours |-> None])
    \/ \E c \in Owner, id \in GrantIds : RevoquerAcces(c, id)
    \/ \E c \in AdminCallers, id \in GrantIds : AdminRevoquerAcces(c, id)
    \/ \E t \in RawTokens : DemoAccess(t)
    \/ \E c \in DemoOnly : Moi(c)

SpecRevoke == InitDemo /\ [][NextRevoke]_vars

(* the grant a demo cookie was minted from is revoked *)
RevokedGrant(cookies) ==
    /\ cookies.auth_token = None
    /\ cookies.demo_token # None
    /\ cookies.demo_token[1] \in issued
    /\ \E a \in accesTemporaires :
          a.id = cookies.demo_token[1].accesId /\ ~a.actif

(* C25: revoking a grant is permanent and reaches the demo cookies already *)
(* issued: revoke sets actif to false and keeps the row, no step sets it   *)
(* back to true or deletes the row, and a request carrying only a          *)
(* demo_token minted from the grant is answered 401 from then on.          *)
C25_RevokePermanent ==
    [][ /\ (last'.op \in {"acces.revoquer", "admin.acces.revoquer"}
               /\ last'.status = 200) =>
            /\ {a.id : a \in accesTemporaires'} = {a.id : a \in accesTemporaires}
            /\ \A a \in accesTemporaires' : a.id = last'.id => ~a.actif
        /\ \A a \in accesTemporaires : ~a.actif => a \in accesTemporaires'
        /\ (last'.op = "moi" /\ RevokedGrant(last'.cookies)) => last'.status = 401
      ]_vars

C25_Witness ==
    /\ last.op = "moi"
    /\ RevokedGrant(last.cookies)
    /\ last.status = 401
    /\ clock < last.cookies.demo_token[1].exp

(***************************************************************************)
(* Role changes, with the requests of several owners in flight together    *)
(***************************************************************************)
(* PATCH /api/equipe/:id/role up to its update: authenticate, requireRole, *)
(* the body, the select of the member and the test on the caller's own id  *)
PatchRoleCheck(cookies, id, role) ==
    LET g == OwnerGuard(cookies)
        membre == {u \in utilisateurs : u.id = id /\ u.agenceId = g.auth.agenceId[1]}
    IN IF ~g.next
       THEN Answer(EquipeAnswer("equipe.role", cookies, g, id, g.status))
       ELSE IF role \notin {"owner", "member", "model"}
       THEN Answer(EquipeAnswer("equipe.role", cookies, g, id, 400))
       ELSE IF membre = {}
       THEN Answer(EquipeAnswer("equipe.role", cookies, g, id, 404))
       ELSE IF id = g.auth.user[1].id
       THEN Answer(EquipeAnswer("equipe.role", cookies, g, id, 400))
       ELSE /\ Cardinality({r \in inflight : r.kind = "role"}) < MaxRoleRequests
            /\ inflight' = inflight \cup
                  {[kind |-> "role", id |-> id, role |-> role,
                    par |-> g.auth.user[1].id]}
            /\ last' = EquipeAnswer("equipe.role.check", cookies, g, id, 0)
            /\ UNCHANGED <<clock, envSecret, teamTables, authTables, resourceTables,
                           issued>>

(* the update of the role and the answer *)
PatchRoleUpdate(req) ==
    /\ req \in inflight
    /\ req.kind = "role"
    /\ inflight' = inflight \ {req}
    /\ utilisateurs' = {IF u.id = req.id THEN [u EXCEPT !.role = req.role] ELSE u :
                           u \in utilisateurs}
    /\ last' = [op |-> "equipe.role.update", req |-> req, status |-> 200]
    /\ UNCHANGED <<clock, envSecret, teamTables, sessions, accesTemporaires,
                   superAdmins, resourceTables, issued>>

Owners == {Cookies(Some(AnaToken0), None, None), Cookies(Some(MiaToken0), None, None)}

NextOwners ==
    \/ \E c \in Owners, id \in {"u1", "u4"}, r \in {"owner", "member", "admin"} :
          PatchRoleCheck(c, id, r)
    \/ \E req \in inflight : PatchRoleUpdate(req)
    \/ \E c \in Owners, id \in {"u1", "u4", "u2"} : SupprimerMembre(c, id)
    \/ \E c \in Owners : EquipeList(c)

SpecOwners == InitEquipe /\ [][NextOwners]_vars

(* the Principal row an auth_token names *)
RowOf(cookies) == {u \in utilisateurs : u.id = cookies.auth_token[1].userId}

EquipeOps == {"equipe.list", "equipe.role", "equipe.role.check", "equipe.delete"}

OwnerOnlyOps == {"equipe.role", "equipe.role.check", "equipe.delete"}

(* C26: the identity authenticate attaches for a registered principal     *)
(* carries the role and tenant stored in the Principal row, not the claims *)
(* of the JWT: once an owner's role is changed to member the next request  *)
(* with the token issued before is refused by requireRole("owner") with    *)
(* 403, and once a member is deleted it is rejected with 401.              *)
C26_IdentityFromRow ==
    [][ last'.op \in EquipeOps =>
            /\ RowOf(last'.cookies) = {} =>
                  ~last'.auth.next /\ last'.status = 401
            /\ last'.auth.next =>
                  \E u \in RowOf(last'.cookies) :
                      /\ last'.auth.user[1].role = u.role
                      /\ last'.auth.user[1].agenceId = u.agenceId
            /\ (last'.op \in OwnerOnlyOps
                  /\ \E u \in RowOf(last'.cookies) : u.role # "owner") =>
                  last'.status = 403
      ]_vars

(* a token whose role claim is owner, refused once the row says member *)
C26_Witness ==
    /\ last.op = "equipe.role"
    /\ last.status = 403
    /\ last.cookies.auth_token[1].role = "owner"
    /\ \E u \in RowOf(last.cookies) : u.role = "member"

(* the agencies that have a principal with role owner *)
WithOwner(users) == {u.agenceId : u \in {v \in users : v.role = "owner"}}

(* C28: every agency that has an owner keeps at least one principal with   *)
(* role owner under any interleaving of the team routes, two owners of an  *)
(* agency changing each other's role at the same time included.            *)
C28_OwnerKept ==
    [][ WithOwner(utilisateurs) \subseteq WithOwner(utilisateurs') ]_vars

(* C27: the tenant id of a stored resource never changes after creation:  *)
(* no request of a tenant principal, whatever fields the body of a PATCH   *)
(* carries, modifies the agenceId of a row.                                *)
C27_TenantIdFrozen ==
    [][ \A r \in transactions : \A q \in transactions' :
            r.id = q.id => r.agenceId = q.agenceId ]_vars

(* the demo cookies minted from a grant whose JWT still verifies *)
CookiesOfGrant(a) ==
    {Cookies(None, Some(t), None) :
        t \in {i \in issued : i.type = "demo" /\ i.accesId = a.id
                               /\ jwtVerify(i, MwSecret)}}

(* C29: the three validity checks of a grant agree at every instant, the   *)
(* instant equal to its expiration included: the public validation         *)
(* endpoints report it valid if and only if the exchange endpoint mints a  *)
(* demo cookie for it and if and only if the demo path of authenticate     *)
(* accepts a demo cookie minted from it.                                   *)
C29_ChecksAgree ==
    \A a \in accesTemporaires :
        /\ valider(a.token).valid = (demoValidate(a.token) = 200)
        /\ valider(a.token).valid = (demoAccess(a.token) = 200)
        /\ \A c \in CookiesOfGrant(a) :
              valider(a.token).valid = (DemoAcces(c) # {})

(***************************************************************************)
(* Subscriptions: the Stripe webhook and the status endpoint               *)
(***************************************************************************)
(* the first agency the select by customer id returns *)
AgenceOfCustomer(customer) ==
    {a \in agences : a.idAbonnementStripe = Some(customer)}

(* update(agences).set(fields).where(id): fields holds the new value of    *)
(* each column, None for a column the update leaves alone                  *)
UpdateAgence(id, fields) ==
    {IF a.id = id
     THEN [a EXCEPT !.plan = IF fields.plan = None THEN @ ELSE fields.plan[1],
                    !.statutAbonnement =
                        IF fields.statut = None THEN @ ELSE fields.statut[1],
                    !.idAbonnementStripe =
                        IF fields.customer = None THEN @ ELSE fields.customer]
     ELSE a : a \in agences}

(* POST /api/stripe/webhook: the agences table after the event *)
webhook(event) ==
    IF event.type = "checkout.session.completed"
    THEN IF event.agenceId = None THEN agences
         ELSE UpdateAgence(event.agenceId[1],
                           [plan |-> Some("premium"), statut |-> Some("actif"),
                            customer |-> Some(event.customer)])
    ELSE IF AgenceOfCustomer(event.customer) = {} THEN agences
    ELSE LET agence == CHOOSE a \in AgenceOfCustomer(event.customer) : TRUE
         IN IF event.type = "customer.subscription.deleted"
            THEN UpdateAgence(agence.id, [plan |-> Some("free"),
                                          statut |-> Some("annule"), customer |-> None])
            ELSE IF event.type = "invoice.payment_failed"
            THEN UpdateAgence(agence.id, [plan |-> None, statut |-> Some("suspendu"),
                                          customer |-> None])
            ELSE IF event.type = "invoice.payment_succeeded"
            THEN UpdateAgence(agence.id, [plan |-> Some("premium"),
                                          statut |-> Some("actif"), customer |-> None])
            ELSE agences

Webhook(event) ==
    /\ agences' = webhook(event)
    /\ last' = [op |-> "stripe.webhook", event |-> event, status |-> 200]
    /\ UNCHANGED <<clock, envSecret, invitations, inflight, authTables,
                   resourceTables, issued>>

(* lines 282-284 *)
isPremium(agence) ==
    /\ agence.plan = "premium"
    /\ agence.statutAbonnement # "suspendu"
    /\ agence.statutAbonnement # "annule"

(* GET /api/stripe/status *)
StripeStatus(cookies) ==
    LET auth == authenticate(cookies)
        found == {a \in agences : a.id = auth.agenceId[1]}
    IN Answer([op |-> "stripe.status", cookies |-> cookies, auth |-> auth,
               status |-> IF ~auth.next THEN auth.status
                          ELSE IF found = {} THEN 404 ELSE 200,
               isPremium |-> IF auth.next /\ found # {}
                             THEN isPremium(CHOOSE a \in found : TRUE)
                             ELSE FALSE])

EventTypes ==
    {"checkout.session.completed", "customer.subscription.deleted",
     "invoice.payment_failed", "invoice.payment_succeeded", "charge.refunded"}

Events ==
    [type : EventTypes, customer : {"cus_1", "cus_9"}, agenceId : {None, Some("a1")}]

NextStripe ==
    \/ \E e \in Events : Webhook(e)
    \/ \E c \in AuthSlot : StripeStatus(c)

SpecStripe == InitDemo /\ [][NextStripe]_vars

(* the agencies whose subscription was cancelled and not bought again *)
Cancelled == {a \in agences : a.plan = "free" /\ a.statutAbonnement = "annule"}

(* C30: cancellation is sticky under webhook reordering: after a           *)
(* customer.subscription.deleted event the agency is not premium until a   *)
(* checkout.session.completed event for it; a later invoice event for the  *)
(* customer does not make it premium again, and an event of unknown type   *)
(* or for an unknown customer changes no agency.                           *)
C30_CancellationSticky ==
    [][ last'.op = "stripe.webhook" =>
            /\ last'.event.type \in {"invoice.payment_succeeded",
                                     "invoice.payment_failed"} =>
                  \A a \in Cancelled : \A b \in agences' :
                      b.id = a.id => ~isPremium(b)
            /\ (last'.event.type \notin EventTypes \ {"charge.refunded"}
                  \/ (last'.event.type # "checkout.session.completed"
                        /\ AgenceOfCustomer(last'.event.customer) = {})) =>
                  agences' = agences
      ]_vars

====
